---- MODULE Spec2Model ----
(***************************************************************************)
(* coretracer: the global registry (Enable / Disable / Close and the free  *)
(* entry points) and the span lifecycle engine (otelTracer): span          *)
(* creation, the completion closure, TraceError, the stuck-function        *)
(* watchdog and the synthetic ancestor chain.                              *)
(*                                                                         *)
(* Spans are handles of the OpenTelemetry SDK; the engine only calls       *)
(* Start, IsRecording, SetStatus, RecordError, SetAttributes and End on    *)
(* them.  Every such call is one atomic step (the SDK serialises the calls *)
(* on one span with the span's mutex); the steps of the completion         *)
(* closure, of TraceError and of the watchdog goroutine interleave freely. *)
(***************************************************************************)
EXTENDS Integers, Sequences, FiniteSets, TLC

\* ------------------------------------------------------------------ bounds
\* traced calls under the full interleaving of their completion paths
MaxCalls == 1

\* traced calls of SpecNested (nested calls, no concurrent completion paths)
MaxNestedCalls == 2

\* engines Enable may build
MaxEngines == 1

\* invocations of one completion function
MaxCompletions == 2

\* TraceError calls on the context of one traced call
MaxTraceErrors == 1

\* ---------------------------------------------------------------- constants
NoEngine == 0

NoFn == 0

\* the no-op span oteltracer.SpanFromContext returns for a context without span
NoopSpan == 0

\* a nil oteltracer.Span interface value
NilSpan == -1

NilErr == "nil"

Errors == {"boom"}

\* Call stacks as GetStackFrames() returns them: nearest frame first.  A frame
\* function is the sequence of the '.'-separated segments of its qualified name.
Stacks ==
    { << <<"main", "h">> >>,
      << <<"main", "h">>, <<"main", "g">>, <<"runtime", "goexit">> >>,
      << <<"main", "h">>, <<"main", "g">>, <<"main", "f">>,
         <<"main", "main">>, <<"runtime", "main">>, <<"runtime", "goexit">> >> }

\* the stack of h, called by g, called by f, called by main.main
StackFGH ==
    << <<"main", "h">>, <<"main", "g">>, <<"main", "f">>,
       <<"main", "main">>, <<"runtime", "main">>, <<"runtime", "goexit">> >>

\* the call stacks TraceError is called from
ErrorStacks == {StackFGH}

\* explicit span names given to TraceWithName / TracelessWithName
Names == {"worker"}

\* the tags a traced call passes, and the tags WithTags adds later
SvcTags == {"svc"}

MoreTags == {"height"}

\* arguments of SetCallStackOffset
Offsets == {-5, 0, 2}

\* context.Background(): no span, none of the caller's values
Background == [span |-> NoopSpan, base |-> "background"]

\* what stands for the context of a caller that passed a nil pointer
NilCtx == [span |-> NoopSpan, base |-> "nil"]

\* a caller's own context that carries no span yet
CallerCtx == [span |-> NoopSpan, base |-> "caller"]

VARIABLES
    tracer,              \* registry: the installed engine, or NoEngine
    exporterShutdownFn,  \* registry: the stored shutdown function, or NoFn
    shutdownFns,         \* per shutdown function handed out: times invoked
    engines,             \* the otelTracer objects built so far
    spans,               \* the spans started so far
    calls,               \* the traced calls: spans, completion, watchdog, ctx
    faults,              \* panics that reached caller code
    tagMaps,             \* the maps behind the Tags containers built so far
    libCall              \* the library call under examination: arguments, result

vars == <<tracer, exporterShutdownFn, shutdownFns, engines, spans, calls, faults,
          tagMaps, libCall>>

\* the state of the library functions, which no entry point of the engine touches
lib == <<tagMaps, libCall>>

\* no library call is under examination
NoCall == [fn |-> "none"]

\* ------------------------------------------------------------ span handle
\* Timestamps.  Clock is whatever the SDK's clock reads when it is asked;
\* Captured(n) is the value of one time.Now() call, n telling the calls apart.
Clock == [kind |-> "clock", of |-> 0]

NoTime == [kind |-> "none", of |-> 0]

Captured(n) == [kind |-> "captured", of |-> n]

\* a span started with oteltracer.WithTimestamp(ts)
NewSpanAt(name, parent, attrs, ts) ==
    [name |-> name, parent |-> parent, recording |-> TRUE,
     status |-> "Unset", desc |-> "", events |-> 0, attrs |-> attrs,
     ends |-> 0, endedAt |-> 0, startTs |-> ts, endTs |-> NoTime,
     stacktrace |-> <<>>,
     statusBy |-> {}, eventBy |-> {}, endBy |-> {}, lateBy |-> {}]

NewSpan(name, parent, attrs) == NewSpanAt(name, parent, attrs, Clock)

NumEnded(sp) == Cardinality({i \in 1..Len(sp) : sp[i].endedAt > 0})

IsRecording(sp, h) == h # NoopSpan /\ h # NilSpan /\ sp[h].recording

SpanFromContext(ctx) == ctx.span

CodeRank(code) == CASE code = "Unset" -> 0 [] code = "Error" -> 1 [] code = "Ok" -> 2

\* Span.SetStatus: ignored on an ended span; a code of lower rank than the
\* current one is ignored (Ok > Error > Unset); a description is kept for Error only.
SetStatus(sp, h, code, desc, by) ==
    IF h = NoopSpan THEN sp
    ELSE [sp EXCEPT ![h] =
            [@ EXCEPT !.statusBy = @ \cup {by},
                      !.lateBy = IF sp[h].recording THEN @ ELSE @ \cup {by},
                      !.status = IF sp[h].recording /\ CodeRank(sp[h].status) <= CodeRank(code)
                                 THEN code ELSE @,
                      !.desc = IF sp[h].recording /\ CodeRank(sp[h].status) <= CodeRank(code)
                               THEN (IF code = "Error" THEN desc ELSE "") ELSE @]]

\* Span.RecordError: adds one exception event to a recording span.
RecordError(sp, h, by) ==
    IF h = NoopSpan THEN sp
    ELSE [sp EXCEPT ![h] =
            [@ EXCEPT !.eventBy = @ \cup {by},
                      !.lateBy = IF sp[h].recording THEN @ ELSE @ \cup {by},
                      !.events = IF sp[h].recording THEN @ + 1 ELSE @]]

\* Span.RecordError with the event attribute exception.stacktrace
RecordErrorWithStackTrace(sp, h, by, stackTrace) ==
    IF h = NoopSpan THEN sp
    ELSE [RecordError(sp, h, by) EXCEPT
            ![h].stacktrace = IF sp[h].recording THEN stackTrace ELSE @]

\* Span.SetAttributes: adds attributes to a recording span.
SetAttributes(sp, h, attrs, by) ==
    IF h = NoopSpan THEN sp
    ELSE [sp EXCEPT ![h] =
            [@ EXCEPT !.lateBy = IF sp[h].recording THEN @ ELSE @ \cup {by},
                      !.attrs = IF sp[h].recording THEN @ \cup attrs ELSE @]]

\* Span.End(WithTimestamp(ts)): ends a recording span at ts; a later End
\* changes nothing.
EndAt(sp, h, by, ts) ==
    IF h = NoopSpan THEN sp
    ELSE [sp EXCEPT ![h] =
            [@ EXCEPT !.ends = @ + 1,
                      !.endBy = @ \cup {by},
                      !.recording = FALSE,
                      !.endTs = IF sp[h].recording THEN ts ELSE @,
                      !.endedAt = IF sp[h].recording THEN NumEnded(sp) + 1 ELSE @]]

\* Span.End(): ends a recording span at the clock's time.
End(sp, h, by) == EndAt(sp, h, by, Clock)

\* Tracer.Start: a new span, child of the span in ctx unless a new root is asked for.
StartSpan(sp, ctx, name, attrs, newRoot) ==
    Append(sp, NewSpan(name, IF newRoot THEN NoopSpan ELSE ctx.span, attrs))

\* stackcache.FuncName on a qualified name: its last segment.
FuncName(function) == function[Len(function)]

\* --------------------------------------------------------------- stackcache
\* StackCache.GetStackFrames(): the user frames, nearest first.
GetStackFrames(stack) == stack

\* StackCache.GetCaller(): the nearest user frame.
GetCaller(stack) == stack[1]

\* ------------------------------------------------------------------ engine
NewEngine(watchdog) == [tracerNil |-> FALSE, callStackOffset |-> 0, watchdog |-> watchdog]

Reverse(s) == [k \in 1..Len(s) |-> s[Len(s) + 1 - k]]

IsMainFrame(function) == function = <<"runtime", "main">> \/ function = <<"main", "main">>

NotMainFrame(function) == ~IsMainFrame(function)

\* callStackFramesToSpans without the skip of runtime.main and main.main
AncestorFramesKeepMain(frames) ==
    IF Len(frames) <= 2 THEN <<>>
    ELSE Reverse(SubSeq(frames, 2, Len(frames) - 1))

\* a loop that starts at the outermost frame (i from len-1 down to 1)
AncestorFramesWithOutermost(frames) ==
    IF Len(frames) <= 2 THEN <<>>
    ELSE SelectSeq(Reverse(SubSeq(frames, 2, Len(frames))), NotMainFrame)

\* callStackFramesToSpans: the frames that get a synthetic span, in the order
\* the loop (i from len-2 down to 1) opens them.
AncestorFrames(frames) ==
    IF Len(frames) <= 2 THEN <<>>
    ELSE SelectSeq(Reverse(SubSeq(frames, 2, Len(frames) - 1)), NotMainFrame)

\* callStackFramesToSpans starting every synthetic span as a new root
callStackFramesToSpansAllRoots(sp, timestamp, frames, attrs) ==
    LET chain == AncestorFrames(frames)
        first == Len(sp) + 1
        opened == [k \in 1..Len(chain) |->
                     NewSpanAt(FuncName(chain[k]), NoopSpan, attrs, timestamp)]
    IN  [spans |-> sp \o opened,
         parentSpans |-> [k \in 1..Len(chain) |-> first + k - 1],
         ctx |-> IF chain = <<>> THEN Background
                 ELSE [span |-> first + Len(chain) - 1, base |-> "background"]]

\* callStackFramesToSpans: opens one span per ancestor frame, the first a new
\* root, each later one child of the span opened before it; returns the
\* context of the last one (context.Background() when none is opened).
callStackFramesToSpans(sp, timestamp, frames, attrs) ==
    LET chain == AncestorFrames(frames)
        first == Len(sp) + 1
        opened == [k \in 1..Len(chain) |->
                     NewSpanAt(FuncName(chain[k]),
                               IF k = 1 THEN NoopSpan ELSE first + k - 2,
                               attrs, timestamp)]
    IN  [spans |-> sp \o opened,
         parentSpans |-> [k \in 1..Len(chain) |-> first + k - 1],
         ctx |-> IF chain = <<>> THEN Background
                 ELSE [span |-> first + Len(chain) - 1, base |-> "background"]]

\* the order in which parentSpansEndFn issues End to spansToEnd
ParentsEndOrder(spansToEnd) == spansToEnd

NewCall(op, ctxNil, ctxIn, ctx, span, parents, fn, wpc) ==
    [op |-> op, ctxNil |-> ctxNil, ctxIn |-> ctxIn, ctx |-> ctx, span |-> span,
     parents |-> parents, fn |-> fn, wpc |-> wpc,
     doneC |-> "open", cpc |-> "idle", cSaw |-> "none", cRuns |-> 0,
     epc |-> "idle", eVia |-> "none", eStack |-> <<>>, eErr |-> NilErr, eSpan |-> NoopSpan,
     eNew |-> FALSE, eRuns |-> 0, eSaw |-> "none", now |-> NoTime]

\* a free entry point that resets the caller's context while disabled
DisabledCallResetsCtx(op, ctxNil, ctxIn) ==
    NewCall(op, ctxNil, ctxIn, Background, NoopSpan, <<>>, "noop", "off")

\* What a free entry point returns while no engine is installed: func() {},
\* the caller's context untouched.
DisabledCall(op, ctxNil, ctxIn) ==
    NewCall(op, ctxNil, ctxIn, ctxIn, NoopSpan, <<>>, "noop", "off")

\* What Trace & co. return after recover(): the zero SpanEnderFn.
RecoveredFn == "nil"

\* a traceStart that replaces a nil context pointer without turning the call
\* into a virtual trace
traceStartNilCtxNotVirtual(e, op, ctxNil, ctxIn, funcName, virtualTrace, attrs, stack) ==
    LET virt == virtualTrace
        ctx0 == IF ctxNil THEN Background ELSE ctxIn
        chain == IF virt THEN AncestorFrames(GetStackFrames(stack)) ELSE <<>>
        now == Captured(Len(spans))
        built == callStackFramesToSpans(spans, now, GetStackFrames(stack), attrs)
        ctx1 == IF virt THEN built.ctx ELSE ctx0
        sp1 == IF virt THEN built.spans ELSE spans
        parentSpans == IF virt THEN built.parentSpans ELSE <<>>
        id == Len(sp1) + 1
        modifiedContext == [ctx1 EXCEPT !.span = id]
    IN  IF engines[e].tracerNil
        THEN [spans |-> spans,
              call |-> NewCall(op, ctxNil, ctxIn,
                               IF virt /\ chain = <<>> /\ ~ctxNil THEN ctx1 ELSE ctxIn,
                               NoopSpan, <<>>, RecoveredFn, "off")]
        ELSE [spans |-> StartSpan(sp1, ctx1, funcName, attrs, FALSE),
              call |-> [NewCall(op, ctxNil, ctxIn,
                                IF ctxNil THEN ctxIn ELSE modifiedContext,
                                id, parentSpans, "closure",
                                IF engines[e].watchdog THEN "wait" ELSE "off")
                            EXCEPT !.now = IF virt THEN now ELSE NoTime]]

\* otelTracer.traceStart run on engine e; the result is the new spans and the
\* call as the caller sees it (the returned completion, its *ctx).
traceStart(e, op, ctxNil, ctxIn, funcName, virtualTrace, attrs, stack) ==
    LET virt == virtualTrace \/ ctxNil
        ctx0 == IF ctxNil THEN Background ELSE ctxIn
        chain == IF virt THEN AncestorFrames(GetStackFrames(stack)) ELSE <<>>
        now == Captured(Len(spans))
        built == callStackFramesToSpans(spans, now, GetStackFrames(stack), attrs)
        ctx1 == IF virt THEN built.ctx ELSE ctx0
        sp1 == IF virt THEN built.spans ELSE spans
        parentSpans == IF virt THEN built.parentSpans ELSE <<>>
        id == Len(sp1) + 1
        modifiedContext == [ctx1 EXCEPT !.span = id]
    IN  IF engines[e].tracerNil
        THEN \* t.tracer.Start on a nil handle panics; the entry point recovers
             [spans |-> spans,
              call |-> NewCall(op, ctxNil, ctxIn,
                               IF virt /\ chain = <<>> /\ ~ctxNil THEN ctx1 ELSE ctxIn,
                               NoopSpan, <<>>, RecoveredFn, "off")]
        ELSE [spans |-> StartSpan(sp1, ctx1, funcName, attrs, FALSE),
              call |-> [NewCall(op, ctxNil, ctxIn,
                                IF ctxNil THEN ctxIn ELSE modifiedContext,
                                id, parentSpans, "closure",
                                IF engines[e].watchdog THEN "wait" ELSE "off")
                            EXCEPT !.now = IF virt THEN now ELSE NoTime]]

\* ---------------------------------------------------------------- registry
\* a writer that does not wait for the readers
WriterNeverWaits == TRUE

\* no free entry point holds the reader lock (TraceError is the only one
\* that takes more than one step under it)
WriterFree == \A c \in 1..Len(calls) : ~(calls[c].epc # "idle" /\ calls[c].eVia = "free")

\* an Enable that installs an engine although the exporter init failed
EnableInstallsOnFailure(watchdog, ok) ==
    /\ \A c \in 1..Len(calls) : ~(calls[c].epc # "idle" /\ calls[c].eVia = "free")
    /\ Len(engines) < MaxEngines
    /\ IF ok
       THEN /\ shutdownFns' = Append(shutdownFns, 0)
            /\ exporterShutdownFn' = Len(shutdownFns) + 1
       ELSE /\ exporterShutdownFn' = NoFn
            /\ UNCHANGED shutdownFns
    /\ engines' = Append(engines, NewEngine(watchdog))
    /\ tracer' = Len(engines) + 1
    /\ UNCHANGED <<spans, calls, faults>>

\* Enable(cfg, exporterInitFn): ok is whether exporterInitFn yields a shutdown
\* function, watchdog is cfg.StuckFunctionWatchdog.
Enable(watchdog, ok) ==
    /\ WriterFree
    /\ IF ok
       THEN /\ Len(engines) < MaxEngines
            /\ shutdownFns' = Append(shutdownFns, 0)
            /\ exporterShutdownFn' = Len(shutdownFns) + 1
            /\ engines' = Append(engines, NewEngine(watchdog))
            /\ tracer' = Len(engines) + 1
       ELSE /\ exporterShutdownFn' = NoFn
            /\ UNCHANGED <<shutdownFns, engines, tracer>>
    /\ UNCHANGED <<spans, calls, faults>>

\* otelTracer.Close: detaches the exporter handle.
EngineClose(es, e) == [es EXCEPT ![e].tracerNil = TRUE]

\* Disable()
Disable ==
    /\ WriterFree
    /\ IF tracer # NoEngine
       THEN /\ engines' = EngineClose(engines, tracer)
            /\ IF exporterShutdownFn = NoFn
               THEN \* call of a nil func: panics before tracer = nil
                    /\ faults' = faults \cup {"Disable: nil shutdown fn"}
                    /\ UNCHANGED <<tracer, shutdownFns>>
               ELSE /\ shutdownFns' = [shutdownFns EXCEPT ![exporterShutdownFn] = @ + 1]
                    /\ tracer' = NoEngine
                    /\ UNCHANGED faults
       ELSE UNCHANGED <<engines, tracer, shutdownFns, faults>>
    /\ UNCHANGED <<exporterShutdownFn, spans, calls>>

\* Close()
Close ==
    /\ WriterFree
    /\ IF tracer # NoEngine
       THEN /\ engines' = EngineClose(engines, tracer)
            /\ tracer' = NoEngine
            /\ IF exporterShutdownFn = NoFn
               THEN /\ faults' = faults \cup {"Close: nil shutdown fn"}
                    /\ UNCHANGED shutdownFns
               ELSE /\ shutdownFns' = [shutdownFns EXCEPT ![exporterShutdownFn] = @ + 1]
                    /\ UNCHANGED faults
       ELSE UNCHANGED <<engines, tracer, shutdownFns, faults>>
    /\ UNCHANGED <<exporterShutdownFn, spans, calls>>

\* ------------------------------------------------------------ entry points
\* the contexts a caller can pass: its own span-less context, or the context
\* an earlier traced call wrote back
CallerContexts == {CallerCtx} \cup {calls[d].ctx : d \in 1..Len(calls)}

\* an entry point of engine e, recover() included: the spans and the call added
EngineStart(e, op, ctxNil, ctxIn, funcName, virtualTrace, stack) ==
    LET r == traceStart(e, op, ctxNil, ctxIn, funcName, virtualTrace, SvcTags, stack)
    IN  /\ spans' = r.spans
        /\ calls' = Append(calls, r.call)
        /\ UNCHANGED <<tracer, exporterShutdownFn, shutdownFns, engines, faults>>

\* a free entry point: no-op while no engine is installed, else delegates
FreeStart(op, ctxNil, ctxIn, funcName, virtualTrace, stack) ==
    IF tracer = NoEngine
    THEN /\ calls' = Append(calls, DisabledCall(op, ctxNil, ctxIn))
         /\ UNCHANGED <<tracer, exporterShutdownFn, shutdownFns, engines, spans, faults>>
    ELSE EngineStart(tracer, op, ctxNil, ctxIn, funcName, virtualTrace, stack)

\* e = NoEngine stands for the package-level entry point, any other e for the
\* method called on an engine reference obtained from DefaultTracer()
Start(e, op, ctxNil, ctxIn, funcName, virtualTrace, stack) ==
    IF e = NoEngine
    THEN FreeStart(op, ctxNil, ctxIn, funcName, virtualTrace, stack)
    ELSE EngineStart(e, op, ctxNil, ctxIn, funcName, virtualTrace, stack)

\* the context arguments of an entry point: a nil pointer, or a pointer to one
\* of the caller's contexts
CtxArgs(ctxNil) == IF ctxNil THEN {NilCtx} ELSE CallerContexts

\* Trace(ctx, tags...)
Trace(e, ctxNil, ctxIn, stack) ==
    Start(e, "Trace", ctxNil, ctxIn, FuncName(GetCaller(stack)), FALSE, stack)

\* TraceWithName(ctx, name, tags...)
TraceWithName(e, ctxNil, ctxIn, name, stack) ==
    Start(e, "TraceWithName", ctxNil, ctxIn, name, FALSE, stack)

\* Traceless(ctx, tags...)
Traceless(e, ctxNil, ctxIn, stack) ==
    Start(e, "Traceless", ctxNil, ctxIn, FuncName(GetCaller(stack)), TRUE, stack)

\* TracelessWithName(ctx, name, tags...)
TracelessWithName(e, ctxNil, ctxIn, name, stack) ==
    Start(e, "TracelessWithName", ctxNil, ctxIn, name, TRUE, stack)

\* ------------------------------------------------------ completion closure
\* the returned SpanEnderFn is invoked: close(doneC)
CompletionInvoke(c) ==
    LET k == calls[c]
    IN  /\ k.cpc = "idle"
        /\ k.cRuns < MaxCompletions
        /\ CASE k.fn = "noop" ->
                  /\ calls' = [calls EXCEPT ![c].cRuns = @ + 1]
                  /\ UNCHANGED faults
             [] k.fn = "nil" ->
                  /\ calls' = [calls EXCEPT ![c].cpc = "panicked"]
                  /\ faults' = faults \cup {"call of nil SpanEnderFn"}
             [] k.fn = "closure" /\ k.doneC = "closed" ->
                  /\ calls' = [calls EXCEPT ![c] = [k EXCEPT !.cpc = "panicked"]]
                  /\ faults' = faults \cup {"close of closed channel"}
             [] k.fn = "closure" /\ k.doneC = "open" ->
                  /\ calls' = [calls EXCEPT ![c] =
                                 [k EXCEPT !.cpc = "check", !.doneC = "closed"]]
                  /\ UNCHANGED faults
        /\ UNCHANGED <<tracer, exporterShutdownFn, shutdownFns, engines, spans>>

\* the closure without its recording check
CompletionBranchUnchecked(k, recording) ==
    [k EXCEPT !.cSaw = IF recording THEN "recording" ELSE "ended", !.cpc = "setstatus"]

\* if span.IsRecording() { ... }: the branch the closure takes
CompletionBranch(k, recording) ==
    [k EXCEPT !.cSaw = IF recording THEN "recording" ELSE "ended",
              !.cpc = IF recording THEN "setstatus" ELSE "parents"]

\* a closure that closes nothing once no engine is installed
CompletionCheckNeedsEngine(c) ==
    /\ calls[c].cpc = "check"
    /\ calls' = [calls EXCEPT ![c] =
                    IF tracer = NoEngine
                    THEN [calls[c] EXCEPT !.cSaw = "ended", !.cpc = "idle", !.cRuns = @ + 1]
                    ELSE CompletionBranch(calls[c], IsRecording(spans, calls[c].span))]
    /\ UNCHANGED <<tracer, exporterShutdownFn, shutdownFns, engines, spans, faults>>

\* if span.IsRecording()
CompletionCheck(c) ==
    /\ calls[c].cpc = "check"
    /\ calls' = [calls EXCEPT ![c] = CompletionBranch(calls[c], IsRecording(spans, calls[c].span))]
    /\ UNCHANGED <<tracer, exporterShutdownFn, shutdownFns, engines, spans, faults>>

\* span.SetStatus(otelcodes.Ok, "")
CompletionSetStatus(c) ==
    /\ calls[c].cpc = "setstatus"
    /\ spans' = SetStatus(spans, calls[c].span, "Ok", "", "done")
    /\ calls' = [calls EXCEPT ![c].cpc = "end"]
    /\ UNCHANGED <<tracer, exporterShutdownFn, shutdownFns, engines, faults>>

\* span.End()
CompletionEnd(c) ==
    /\ calls[c].cpc = "end"
    /\ spans' = End(spans, calls[c].span, "done")
    /\ calls' = [calls EXCEPT ![c].cpc = "parents"]
    /\ UNCHANGED <<tracer, exporterShutdownFn, shutdownFns, engines, faults>>

\* parentSpansEndFn ending the ancestors at the clock's time
RECURSIVE EndAllAtClock(_, _, _)
EndAllAtClock(sp, toEnd, now) ==
    IF toEnd = <<>> THEN sp
    ELSE EndAllAtClock(End(sp, Head(toEnd), "done"), Tail(toEnd), now)

\* spansToEnd[i].End(oteltracer.WithTimestamp(now)), in the order toEnd lists
RECURSIVE EndAll(_, _, _)
EndAll(sp, toEnd, now) ==
    IF toEnd = <<>> THEN sp
    ELSE EndAll(EndAt(sp, Head(toEnd), "done", now), Tail(toEnd), now)

\* parentSpansEndFn(parentSpans), after which the closure returns
CompletionParents(c) ==
    /\ calls[c].cpc = "parents"
    /\ spans' = EndAll(spans, ParentsEndOrder(calls[c].parents), calls[c].now)
    /\ calls' = [calls EXCEPT ![c].cpc = "idle", ![c].cRuns = @ + 1]
    /\ UNCHANGED <<tracer, exporterShutdownFn, shutdownFns, engines, faults>>

\* ------------------------------------------------------------- TraceError
\* the frames of the engine on the call stack of captureErrorStackTrace
FrameCallers == <<"runtime", "Callers">>

FrameCapture == <<"coretracer", "captureErrorStackTrace">>

FrameEngineTraceError == <<"coretracer", "(*otelTracer)", "TraceError">>

FrameFreeTraceError == <<"coretracer", "TraceError">>

\* the skip argument TraceError passes to captureErrorStackTrace
ErrorStackSkip == 3

\* const maxDepth
maxDepth == 32

\* the call stack at runtime.Callers inside captureErrorStackTrace, nearest
\* first, when TraceError was called from a caller with the given stack
RawCallStack(via, stack) ==
    <<FrameCallers, FrameCapture, FrameEngineTraceError>>
      \o (IF via = "free" THEN <<FrameFreeTraceError>> ELSE <<>>)
      \o stack

\* runtime.Callers(skip, pcs) with len(pcs) = max
Callers(skip, raw, max) ==
    SubSeq(raw, skip + 1, IF Len(raw) < skip + max THEN Len(raw) ELSE skip + max)

\* captureErrorStackTrace(skip): the functions of the frames it writes, in
\* order; the empty sequence is the empty string
captureErrorStackTrace(skip, raw) == Callers(skip, raw, maxDepth)

\* TraceError returns; saw is what it found (a nil error, no recording span,
\* or a recording span it went on to close)
TraceErrorReturn(k, saw) ==
    [k EXCEPT !.epc = "idle", !.eVia = "none", !.eStack = <<>>, !.eErr = NilErr,
              !.eSpan = NoopSpan,
              !.eNew = FALSE, !.eRuns = @ + 1, !.eSaw = saw]

\* TraceError without the nil-error return
EngineTraceErrorNoNilCheck(c, eng, via, err, stack) ==
    LET k == calls[c]
        ctx == IF k.ctx = NilCtx THEN Background ELSE k.ctx
        span == SpanFromContext(ctx)
    IN  IF ~IsRecording(spans, span)
        THEN /\ calls' = [calls EXCEPT ![c] = TraceErrorReturn(k, IF span = NoopSpan THEN "nospan" ELSE "ended")]
             /\ UNCHANGED spans
        ELSE /\ calls' = [calls EXCEPT ![c] =
                             [k EXCEPT !.epc = "setstatus", !.eVia = via, !.eStack = stack,
                                 !.eErr = err, !.eSpan = span]]
             /\ UNCHANGED spans

\* TraceError without the return on a span that is not recording
EngineTraceErrorNoRecordingCheck(c, eng, via, err, stack) ==
    LET k == calls[c]
        ctx == IF k.ctx = NilCtx THEN Background ELSE k.ctx
        span == SpanFromContext(ctx)
    IN  IF err = NilErr
        THEN /\ calls' = [calls EXCEPT ![c] = TraceErrorReturn(k, "nil")]
             /\ UNCHANGED spans
        ELSE /\ calls' = [calls EXCEPT ![c] =
                             [k EXCEPT !.epc = "setstatus", !.eVia = via, !.eStack = stack,
                                 !.eErr = err, !.eSpan = span]]
             /\ UNCHANGED spans

\* otelTracer.TraceError up to its first call on the span: the nil checks,
\* SpanFromContext, the manufactured span, IsRecording.
EngineTraceError(c, eng, via, err, stack) ==
    LET k == calls[c]
        ctx == IF k.ctx = NilCtx THEN Background ELSE k.ctx
        span == SpanFromContext(ctx)
        r == traceStart(eng, "TraceError", FALSE, ctx, FuncName(GetCaller(stack)), TRUE, SvcTags, stack)
    IN  IF err = NilErr
        THEN /\ calls' = [calls EXCEPT ![c] = TraceErrorReturn(k, "nil")]
             /\ UNCHANGED spans
        ELSE IF span = NilSpan
        THEN /\ spans' = r.spans
             /\ calls' = Append([calls EXCEPT ![c] =
                                   IF r.call.fn = RecoveredFn THEN TraceErrorReturn(k, "panicked")
                                   ELSE [k EXCEPT !.epc = "setstatus", !.eVia = via, !.eStack = stack,
                                            !.eErr = err, !.eSpan = r.call.span, !.eNew = TRUE]],
                                r.call)
        ELSE IF ~IsRecording(spans, span)
        THEN /\ calls' = [calls EXCEPT ![c] = TraceErrorReturn(k, IF span = NoopSpan THEN "nospan" ELSE "ended")]
             /\ UNCHANGED spans
        ELSE /\ calls' = [calls EXCEPT ![c] =
                             [k EXCEPT !.epc = "setstatus", !.eVia = via, !.eStack = stack,
                                 !.eErr = err, !.eSpan = span]]
             /\ UNCHANGED spans

\* TraceError(ctx, err, tags...) on the context of call c, through the
\* package-level entry point (e = NoEngine) or on an engine reference
TraceErrorBegin(c, e, err, stack) ==
    /\ calls[c].epc = "idle"
    /\ calls[c].eRuns < MaxTraceErrors
    /\ IF e = NoEngine
       THEN IF tracer = NoEngine
            THEN UNCHANGED <<calls, spans>>
            ELSE EngineTraceError(c, tracer, "free", err, stack)
       ELSE EngineTraceError(c, e, "engine", err, stack)
    /\ UNCHANGED <<tracer, exporterShutdownFn, shutdownFns, engines, faults>>

\* span.SetStatus(otelcodes.Error, err.Error())
TraceErrorSetStatus(c) ==
    /\ calls[c].epc = "setstatus"
    /\ spans' = SetStatus(spans, calls[c].eSpan, "Error", calls[c].eErr, "error")
    /\ calls' = [calls EXCEPT ![c].epc = "record"]
    /\ UNCHANGED <<tracer, exporterShutdownFn, shutdownFns, engines, faults>>

\* span.RecordError(err, errorOpts...)
TraceErrorRecordError(c) ==
    /\ calls[c].epc = "record"
    /\ spans' = RecordErrorWithStackTrace(spans, calls[c].eSpan, "error",
                    captureErrorStackTrace(ErrorStackSkip,
                        RawCallStack(calls[c].eVia, calls[c].eStack)))
    /\ calls' = [calls EXCEPT ![c].epc = "end"]
    /\ UNCHANGED <<tracer, exporterShutdownFn, shutdownFns, engines, faults>>

\* span.End(), after which TraceError returns
TraceErrorEnd(c) ==
    /\ calls[c].epc = "end"
    /\ spans' = End(spans, calls[c].eSpan, "error")
    /\ calls' = [calls EXCEPT ![c] = TraceErrorReturn(calls[c], "closed")]
    /\ UNCHANGED <<tracer, exporterShutdownFn, shutdownFns, engines, faults>>

\* ---------------------------------------------------------------- watchdog
\* select: case <-doneC
WatchdogDone(c) ==
    /\ calls[c].wpc = "wait"
    /\ calls[c].doneC = "closed"
    /\ calls' = [calls EXCEPT ![c].wpc = "exited"]
    /\ UNCHANGED <<tracer, exporterShutdownFn, shutdownFns, engines, spans, faults>>

\* a timer that never fires
WatchdogTimeoutNever(c) ==
    /\ calls[c].wpc = "wait"
    /\ FALSE
    /\ UNCHANGED vars

\* select: case <-timeout.C, and the recording check
WatchdogTimeout(c) ==
    /\ calls[c].wpc = "wait"
    /\ calls' = [calls EXCEPT ![c] =
                    IF IsRecording(spans, calls[c].span)
                    THEN [calls[c] EXCEPT !.wpc = "record"]
                    ELSE [calls[c] EXCEPT !.wpc = "exited"]]
    /\ UNCHANGED <<tracer, exporterShutdownFn, shutdownFns, engines, spans, faults>>

\* span.RecordError(err, WithStackTrace(true))
WatchdogRecordError(c) ==
    /\ calls[c].wpc = "record"
    /\ spans' = RecordError(spans, calls[c].span, "stuck")
    /\ calls' = [calls EXCEPT ![c].wpc = "attrs"]
    /\ UNCHANGED <<tracer, exporterShutdownFn, shutdownFns, engines, faults>>

\* span.SetAttributes(exception.type = "stuck")
WatchdogSetAttributes(c) ==
    /\ calls[c].wpc = "attrs"
    /\ spans' = SetAttributes(spans, calls[c].span, {"exception.type=stuck"}, "stuck")
    /\ calls' = [calls EXCEPT ![c].wpc = "status"]
    /\ UNCHANGED <<tracer, exporterShutdownFn, shutdownFns, engines, faults>>

\* a watchdog that also ends the span it marked
WatchdogSetStatusAndEnd(c) ==
    /\ calls[c].wpc = "status"
    /\ spans' = End(SetStatus(spans, calls[c].span, "Error", "stuck", "stuck"),
                    calls[c].span, "stuck")
    /\ calls' = [calls EXCEPT ![c].wpc = "exited"]
    /\ UNCHANGED <<tracer, exporterShutdownFn, shutdownFns, engines, faults>>

\* span.SetStatus(otelcodes.Error, "stuck"), after which the goroutine exits
WatchdogSetStatus(c) ==
    /\ calls[c].wpc = "status"
    /\ spans' = SetStatus(spans, calls[c].span, "Error", "stuck", "stuck")
    /\ calls' = [calls EXCEPT ![c].wpc = "exited"]
    /\ UNCHANGED <<tracer, exporterShutdownFn, shutdownFns, engines, faults>>

\* --------------------------------------------- WithTags, SetCallStackOffset
\* a WithTags that tags every span started so far
EngineWithTagsAllSpans(c, tags) ==
    spans' = [i \in 1..Len(spans) |-> SetAttributes(spans, i, tags, "tags")[i]]

\* otelTracer.WithTags
EngineWithTags(c, tags) ==
    LET span == SpanFromContext(calls[c].ctx)
    IN  spans' = IF span = NilSpan THEN spans ELSE SetAttributes(spans, span, tags, "tags")

\* WithTags(ctx, tags...) on the context of call c
WithTags(c, e, tags) ==
    /\ IF e = NoEngine /\ tracer = NoEngine THEN UNCHANGED spans ELSE EngineWithTags(c, tags)
    /\ UNCHANGED <<tracer, exporterShutdownFn, shutdownFns, engines, calls, faults>>

\* a SetCallStackOffset that stores its argument as it comes
EngineSetCallStackOffsetNoClamp(es, e, offset) ==
    [es EXCEPT ![e].callStackOffset = offset]

\* otelTracer.SetCallStackOffset
EngineSetCallStackOffset(es, e, offset) ==
    [es EXCEPT ![e].callStackOffset = IF offset < 0 THEN 0 ELSE offset]

\* SetCallStackOffset(offset)
SetCallStackOffset(e, offset) ==
    /\ engines' = IF e = NoEngine
                  THEN IF tracer = NoEngine THEN engines
                       ELSE EngineSetCallStackOffset(engines, tracer, offset)
                  ELSE EngineSetCallStackOffset(engines, e, offset)
    /\ UNCHANGED <<tracer, exporterShutdownFn, shutdownFns, spans, calls, faults>>

\* ------------------------------------------------------------ specification
Init ==
    /\ tracer = NoEngine
    /\ exporterShutdownFn = NoFn
    /\ shutdownFns = <<>>
    /\ engines = <<>>
    /\ spans = <<>>
    /\ calls = <<>>
    /\ faults = {}
    /\ tagMaps = <<>>
    /\ libCall = NoCall

\* the engine references a caller can use: the package-level entry points
\* (NoEngine) and every engine DefaultTracer() ever returned
EngineRefs == 0..Len(engines)

\* one more traced call fits the bound
CanStart(max) == Len(calls) < max

\* the entry points, at most max traced calls
StartTrace(max) ==
    /\ CanStart(max)
    /\ \E e \in EngineRefs, ctxNil \in BOOLEAN, stack \in Stacks :
         \E ctxIn \in CtxArgs(ctxNil) : Trace(e, ctxNil, ctxIn, stack)

StartTraceWithName(max) ==
    /\ CanStart(max)
    /\ \E e \in EngineRefs, ctxNil \in BOOLEAN, stack \in Stacks, name \in Names :
         \E ctxIn \in CtxArgs(ctxNil) : TraceWithName(e, ctxNil, ctxIn, name, stack)

StartTraceless(max) ==
    /\ CanStart(max)
    /\ \E e \in EngineRefs, ctxNil \in BOOLEAN, stack \in Stacks :
         \E ctxIn \in CtxArgs(ctxNil) : Traceless(e, ctxNil, ctxIn, stack)

StartTracelessWithName(max) ==
    /\ CanStart(max)
    /\ \E e \in EngineRefs, ctxNil \in BOOLEAN, stack \in Stacks, name \in Names :
         \E ctxIn \in CtxArgs(ctxNil) : TracelessWithName(e, ctxNil, ctxIn, name, stack)

\* TraceError on the context of some traced call
StartTraceError ==
    \E c \in 1..Len(calls), e \in EngineRefs, err \in Errors \cup {NilErr}, stack \in ErrorStacks :
        TraceErrorBegin(c, e, err, stack)

Next ==
    \/ \E watchdog \in BOOLEAN, ok \in BOOLEAN : Enable(watchdog, ok) /\ UNCHANGED lib
    \/ Disable /\ UNCHANGED lib
    \/ Close /\ UNCHANGED lib
    \/ StartTrace(MaxCalls) /\ UNCHANGED lib
    \/ StartTraceWithName(MaxCalls) /\ UNCHANGED lib
    \/ StartTraceless(MaxCalls) /\ UNCHANGED lib
    \/ StartTracelessWithName(MaxCalls) /\ UNCHANGED lib
    \/ \E c \in 1..Len(calls) : CompletionInvoke(c) /\ UNCHANGED lib
    \/ \E c \in 1..Len(calls) : CompletionCheck(c) /\ UNCHANGED lib
    \/ \E c \in 1..Len(calls) : CompletionSetStatus(c) /\ UNCHANGED lib
    \/ \E c \in 1..Len(calls) : CompletionEnd(c) /\ UNCHANGED lib
    \/ \E c \in 1..Len(calls) : CompletionParents(c) /\ UNCHANGED lib
    \/ StartTraceError /\ UNCHANGED lib
    \/ \E c \in 1..Len(calls) : TraceErrorSetStatus(c) /\ UNCHANGED lib
    \/ \E c \in 1..Len(calls) : TraceErrorRecordError(c) /\ UNCHANGED lib
    \/ \E c \in 1..Len(calls) : TraceErrorEnd(c) /\ UNCHANGED lib
    \/ \E c \in 1..Len(calls) : WatchdogDone(c) /\ UNCHANGED lib
    \/ \E c \in 1..Len(calls) : WatchdogTimeout(c) /\ UNCHANGED lib
    \/ \E c \in 1..Len(calls) : WatchdogRecordError(c) /\ UNCHANGED lib
    \/ \E c \in 1..Len(calls) : WatchdogSetAttributes(c) /\ UNCHANGED lib
    \/ \E c \in 1..Len(calls) : WatchdogSetStatus(c) /\ UNCHANGED lib
    \/ \E c \in 1..Len(calls), e \in EngineRefs : WithTags(c, e, MoreTags) /\ UNCHANGED lib
    \/ \E e \in EngineRefs, offset \in Offsets : SetCallStackOffset(e, offset) /\ UNCHANGED lib

Spec == Init /\ [][Next]_vars

\* Nested traced calls of callers that run one handler at a time on engines
\* without watchdog: the entry points and the completion closure.
NextNested ==
    \/ Enable(FALSE, TRUE) /\ UNCHANGED lib
    \/ StartTrace(MaxNestedCalls) /\ UNCHANGED lib
    \/ StartTraceWithName(MaxNestedCalls) /\ UNCHANGED lib
    \/ StartTraceless(MaxNestedCalls) /\ UNCHANGED lib
    \/ StartTracelessWithName(MaxNestedCalls) /\ UNCHANGED lib
    \/ \E c \in 1..Len(calls) : CompletionInvoke(c) /\ UNCHANGED lib
    \/ \E c \in 1..Len(calls) : CompletionCheck(c) /\ UNCHANGED lib
    \/ \E c \in 1..Len(calls) : CompletionSetStatus(c) /\ UNCHANGED lib
    \/ \E c \in 1..Len(calls) : CompletionEnd(c) /\ UNCHANGED lib
    \/ \E c \in 1..Len(calls) : CompletionParents(c) /\ UNCHANGED lib

SpecNested == Init /\ [][NextNested]_vars

\* Traced calls on an engine with the stuck-function watchdog: the caller
\* may or may not invoke the completion function and may call TraceError;
\* the timer of every watchdog fires and its goroutine gets to run.
NextWatchdog ==
    \/ Enable(TRUE, TRUE) /\ UNCHANGED lib
    \/ StartTrace(MaxCalls) /\ UNCHANGED lib
    \/ StartTraceWithName(MaxCalls) /\ UNCHANGED lib
    \/ StartTraceless(MaxCalls) /\ UNCHANGED lib
    \/ StartTracelessWithName(MaxCalls) /\ UNCHANGED lib
    \/ \E c \in 1..Len(calls) : CompletionInvoke(c) /\ UNCHANGED lib
    \/ \E c \in 1..Len(calls) : CompletionCheck(c) /\ UNCHANGED lib
    \/ \E c \in 1..Len(calls) : CompletionSetStatus(c) /\ UNCHANGED lib
    \/ \E c \in 1..Len(calls) : CompletionEnd(c) /\ UNCHANGED lib
    \/ \E c \in 1..Len(calls) : CompletionParents(c) /\ UNCHANGED lib
    \/ StartTraceError /\ UNCHANGED lib
    \/ \E c \in 1..Len(calls) : TraceErrorSetStatus(c) /\ UNCHANGED lib
    \/ \E c \in 1..Len(calls) : TraceErrorRecordError(c) /\ UNCHANGED lib
    \/ \E c \in 1..Len(calls) : TraceErrorEnd(c) /\ UNCHANGED lib
    \/ \E c \in 1..Len(calls) : WatchdogDone(c) /\ UNCHANGED lib
    \/ \E c \in 1..Len(calls) : WatchdogTimeout(c) /\ UNCHANGED lib
    \/ \E c \in 1..Len(calls) : WatchdogRecordError(c) /\ UNCHANGED lib
    \/ \E c \in 1..Len(calls) : WatchdogSetAttributes(c) /\ UNCHANGED lib
    \/ \E c \in 1..Len(calls) : WatchdogSetStatus(c) /\ UNCHANGED lib

\* a step of the watchdog goroutine of call c
WatchdogStep(c) ==
    /\ c \in 1..Len(calls)
    /\ UNCHANGED lib
    /\ \/ WatchdogDone(c)
       \/ WatchdogTimeout(c)
       \/ WatchdogRecordError(c)
       \/ WatchdogSetAttributes(c)
       \/ WatchdogSetStatus(c)

SpecWatchdog ==
    /\ Init
    /\ [][NextWatchdog]_vars
    /\ \A c \in 1..MaxCalls : WF_vars(WatchdogStep(c))

\* The registry against concurrent package-level TraceError calls: writers
\* (Enable, Disable, Close) and readers that stay inside the engine for
\* several steps.
NextLock ==
    \/ \E ok \in BOOLEAN : Enable(FALSE, ok) /\ UNCHANGED lib
    \/ Disable /\ UNCHANGED lib
    \/ Close /\ UNCHANGED lib
    \/ StartTrace(MaxNestedCalls) /\ UNCHANGED lib
    \/ StartTraceError /\ UNCHANGED lib
    \/ \E c \in 1..Len(calls) : TraceErrorSetStatus(c) /\ UNCHANGED lib
    \/ \E c \in 1..Len(calls) : TraceErrorRecordError(c) /\ UNCHANGED lib
    \/ \E c \in 1..Len(calls) : TraceErrorEnd(c) /\ UNCHANGED lib

SpecLock == Init /\ [][NextLock]_vars

\* ==================================================================== claims
IsClosure(c) == calls[c].fn = "closure"

Named(c) == spans[calls[c].span]

\* the watchdog has marked the span of call c stuck
StuckMarked(c) ==
    /\ IsClosure(c)
    /\ Named(c).status = "Error"
    /\ Named(c).desc = "stuck"
    /\ "exception.type=stuck" \in Named(c).attrs

\* C1: whatever the interleaving of the completion function, TraceError and
\* the watchdog on one span, End is issued to it at most once and only one of
\* the three paths issues a status, an error event or an End to it.
C1_OnePathCompletes ==
    \A c \in 1..Len(calls) :
        IsClosure(c) =>
            /\ Named(c).ends <= 1
            /\ Cardinality(Named(c).statusBy \cup Named(c).eventBy \cup Named(c).endBy) <= 1

\* C2: invoking a completion function returned by Trace, TraceWithName,
\* Traceless or TracelessWithName again does not fault.
C2_CompletionIdempotent ==
    \A c \in 1..Len(calls) : IsClosure(c) => calls[c].cpc # "panicked"

\* C3: once the watchdog has marked the span stuck, a step of the normal
\* completion leaves its status Error "stuck" with exception.type = "stuck".
C3_StuckSurvivesCompletion ==
    [][\A c \in 1..Len(calls) :
          (StuckMarked(c) /\ calls[c].wpc = "exited" /\ calls'[c].cpc # calls[c].cpc)
              => StuckMarked(c)']_vars

\* C4: when TraceError has ended the span before the completion function
\* looks at it, the completed call's span has Error status, one End, the one
\* error event of TraceError (when the watchdog recorded none), and the
\* completion issued neither a status nor an event nor an End to it.
C4_ErrorThenCompletion ==
    \A c \in 1..Len(calls) :
        (IsClosure(c) /\ calls[c].cRuns >= 1 /\ calls[c].cSaw = "ended"
            /\ "error" \in Named(c).endBy)
        => /\ Named(c).status = "Error"
           /\ ~Named(c).recording
           /\ Named(c).ends = 1
           /\ "done" \notin (Named(c).statusBy \cup Named(c).eventBy \cup Named(c).endBy)
           /\ "stuck" \notin Named(c).eventBy => (Named(c).events = 1 /\ Named(c).desc \in Errors)

C4_Witness ==
    \E c \in 1..Len(calls) :
        /\ IsClosure(c)
        /\ calls[c].op = "Trace"
        /\ calls[c].cRuns = 1
        /\ calls[c].cSaw = "ended"
        /\ Named(c).endBy = {"error"}
        /\ Named(c).status = "Error"
        /\ Named(c).events = 1

\* C5: once the watchdog has marked the span stuck, a step of TraceError
\* changes neither its status nor its description nor its error events.
C5_StuckBlocksError ==
    [][\A c \in 1..Len(calls) :
          (StuckMarked(c) /\ calls[c].wpc = "exited" /\ calls'[c].epc # calls[c].epc)
              => (StuckMarked(c)' /\ Named(c)'.events = Named(c).events)]_vars

\* C6: no completion function an entry point returned faults when invoked,
\* also after the entry point recovered from a panic.
C6_RecoveredCompletionCallable == "call of nil SpanEnderFn" \notin faults

\* C7: while no engine is installed, a package-level Trace, TraceWithName,
\* Traceless or TracelessWithName opens no span, leaves the caller's context
\* as it was and returns a completion that changes nothing when invoked;
\* TraceError, WithTags and SetCallStackOffset change no state.
C7_DisabledIsNoOp ==
    [][LET \* a step of a package-level entry point that opens a traced call
           FreeStartStep ==
               \E ctxNil \in BOOLEAN, stack \in Stacks, name \in Names :
                   \E ctxIn \in CtxArgs(ctxNil) :
                       \/ Trace(NoEngine, ctxNil, ctxIn, stack)
                       \/ TraceWithName(NoEngine, ctxNil, ctxIn, name, stack)
                       \/ Traceless(NoEngine, ctxNil, ctxIn, stack)
                       \/ TracelessWithName(NoEngine, ctxNil, ctxIn, name, stack)
           \* a step of the package-level TraceError, WithTags or SetCallStackOffset
           FreeOtherStep ==
               \/ \E c \in 1..Len(calls), err \in Errors \cup {NilErr}, stack \in Stacks :
                     TraceErrorBegin(c, NoEngine, err, stack)
               \/ \E c \in 1..Len(calls) : WithTags(c, NoEngine, MoreTags)
               \/ \E offset \in Offsets : SetCallStackOffset(NoEngine, offset)
       IN  /\ (tracer = NoEngine /\ Len(calls') = Len(calls) + 1 /\ FreeStartStep) =>
                /\ UNCHANGED <<tracer, exporterShutdownFn, shutdownFns, engines, spans, faults>>
                /\ calls'[Len(calls')].fn = "noop"
                /\ calls'[Len(calls')].ctx = calls'[Len(calls')].ctxIn
                /\ calls'[Len(calls')].wpc = "off"
           /\ \A c \in 1..Len(calls) :
                (calls[c].fn = "noop" /\ CompletionInvoke(c)) =>
                    /\ UNCHANGED <<tracer, exporterShutdownFn, shutdownFns, engines, spans, faults>>
                    /\ calls' = [calls EXCEPT ![c].cRuns = @ + 1]
           /\ (tracer = NoEngine /\ ~UNCHANGED vars) => ~FreeOtherStep]_vars

C7_Witness ==
    \E c \in 1..Len(calls) :
        /\ calls[c].fn = "noop"
        /\ calls[c].cRuns >= 1
        /\ calls[c].ctx = CallerCtx
        /\ tracer = NoEngine
        /\ spans = <<>>

\* C8: TraceError with a nil error, on any context, records no error event,
\* sets no status, ends no span, opens no span and does not fault.
C8_NilErrorIsNoOp ==
    [][\A c \in 1..Len(calls), e \in EngineRefs, stack \in Stacks :
          TraceErrorBegin(c, e, NilErr, stack) =>
              /\ UNCHANGED <<tracer, exporterShutdownFn, shutdownFns, engines, spans, faults>>
              /\ Len(calls') = Len(calls)
              /\ calls'[c].epc = "idle"]_vars

\* a TraceError has returned on the context of an open span and left it open
\* and untouched, with an engine installed
C8_Witness ==
    \E c \in 1..Len(calls) :
        /\ IsClosure(c)
        /\ calls[c].ctx.span = calls[c].span
        /\ calls[c].eRuns >= 1
        /\ Named(c).recording
        /\ Named(c).status = "Unset"
        /\ Named(c).events = 0
        /\ Named(c).ends = 0

\* C9: a Traceless or TracelessWithName call on a context that carries an
\* open span P opens exactly one span, a child of P, and no synthetic ancestor.
C9_TracelessUnderSpanActsLikeTrace ==
    [][(Len(calls') = Len(calls) + 1
          /\ calls'[Len(calls')].op \in {"Traceless", "TracelessWithName"}
          /\ calls'[Len(calls')].fn = "closure"
          /\ ~calls'[Len(calls')].ctxNil
          /\ IsRecording(spans, calls'[Len(calls')].ctxIn.span))
        => /\ calls'[Len(calls')].parents = <<>>
           /\ Len(spans') = Len(spans) + 1
           /\ spans'[calls'[Len(calls')].span].parent = calls'[Len(calls')].ctxIn.span]_vars

\* C10: after the completion function of a Traceless call has run, the named
\* span was ended before every synthetic ancestor, and the ancestors were
\* ended innermost first, root last.
C10_AncestorsEndInReverse ==
    \A c \in 1..Len(calls) :
        (IsClosure(c) /\ calls[c].op \in {"Traceless", "TracelessWithName"} /\ calls[c].cRuns >= 1)
        => /\ \A i \in 1..Len(calls[c].parents) :
                Named(c).endedAt < spans[calls[c].parents[i]].endedAt
           /\ \A i, j \in 1..Len(calls[c].parents) :
                i < j => spans[calls[c].parents[j]].endedAt < spans[calls[c].parents[i]].endedAt


\* C11: the synthetic ancestors of a call were opened in call order, outermost
\* frame first; the first is a root, each later one is a child of the one
\* opened immediately before it, and the named span was opened right after the
\* innermost ancestor as its child.
C11_AncestorsOpenedRootFirst ==
    \A c \in 1..Len(calls) :
        (IsClosure(c) /\ calls[c].parents # <<>>) =>
            LET ps == calls[c].parents
                \* how far from the call site the frame named name is in StackFGH
                FrameDepth(name) ==
                    CHOOSE p \in 1..Len(StackFGH) : FuncName(StackFGH[p]) = name
            IN  /\ spans[ps[1]].parent = NoopSpan
                /\ \A i \in 2..Len(ps) :
                      /\ ps[i] = ps[i - 1] + 1
                      /\ spans[ps[i]].parent = ps[i - 1]
                      /\ FrameDepth(spans[ps[i - 1]].name) > FrameDepth(spans[ps[i]].name)
                /\ calls[c].span = ps[Len(ps)] + 1
                /\ Named(c).parent = ps[Len(ps)]

C11_Witness ==
    \E c \in 1..Len(calls) :
        /\ IsClosure(c)
        /\ calls[c].op \in {"Traceless", "TracelessWithName"}
        /\ Len(calls[c].parents) = 2
        /\ spans[calls[c].parents[1]].name = "f"
        /\ spans[calls[c].parents[2]].name = "g"

\* C12: every synthetic ancestor of a call starts at the one timestamp captured
\* for its reconstruction and, once ended, ended at that same timestamp; after
\* the completion ran all of them are ended; the named span starts and ends at
\* the clock's time.
C12_AncestorsZeroDuration ==
    \A c \in 1..Len(calls) :
        IsClosure(c) =>
            /\ \A i \in 1..Len(calls[c].parents) :
                  LET a == spans[calls[c].parents[i]]
                  IN  /\ a.startTs.kind = "captured"
                      /\ a.startTs = spans[calls[c].parents[1]].startTs
                      /\ a.recording => a.endTs = NoTime
                      /\ ~a.recording => a.endTs = a.startTs
                      /\ calls[c].cRuns >= 1 => ~a.recording
            /\ Named(c).startTs = Clock
            /\ ~Named(c).recording => Named(c).endTs = Clock

C12_Witness ==
    \E c \in 1..Len(calls) :
        /\ IsClosure(c)
        /\ calls[c].cRuns >= 1
        /\ Len(calls[c].parents) = 2
        /\ \A i \in 1..2 : spans[calls[c].parents[i]].endTs.kind = "captured"
        /\ Named(c).endTs = Clock

\* C13: a Traceless call made by h, called by g, called by f, on a context
\* without span opens exactly three spans named f, g and h, f a root, g a child
\* of f, h a child of g; once the completion ran, f and g have zero duration.
C13_TracelessFGH ==
    /\ [][(Len(calls') = Len(calls) + 1 /\ calls'[Len(calls')].fn = "closure"
             /\ \E e \in EngineRefs :
                   \/ Traceless(e, FALSE, CallerCtx, StackFGH)
                   \/ Traceless(e, TRUE, NilCtx, StackFGH))
            => LET n == Len(spans)
               IN  /\ Len(spans') = n + 3
                   /\ spans'[n + 1].name = "f" /\ spans'[n + 1].parent = NoopSpan
                   /\ spans'[n + 2].name = "g" /\ spans'[n + 2].parent = n + 1
                   /\ spans'[n + 3].name = "h" /\ spans'[n + 3].parent = n + 2
                   /\ calls'[Len(calls')].span = n + 3
                   /\ calls'[Len(calls')].parents = <<n + 1, n + 2>>]_vars
    /\ [](\A c \in 1..Len(calls) :
            (IsClosure(c) /\ calls[c].op = "Traceless" /\ calls[c].cRuns >= 1) =>
                \A i \in 1..Len(calls[c].parents) :
                    /\ spans[calls[c].parents[i]].endTs = spans[calls[c].parents[i]].startTs
                    /\ spans[calls[c].parents[i]].endTs.kind = "captured")

C13_Witness ==
    /\ Len(spans) = 3
    /\ spans[1].name = "f" /\ spans[2].name = "g" /\ spans[3].name = "h"
    /\ \E c \in 1..Len(calls) :
          /\ calls[c].op = "Traceless"
          /\ calls[c].span = 3
          /\ calls[c].cRuns >= 1
          /\ spans[1].endTs = spans[1].startTs
          /\ spans[2].endTs = spans[2].startTs

\* engine reference e (NoEngine: the installed engine) has its exporter handle
EngineUsable(e) ==
    IF e = NoEngine
    THEN tracer # NoEngine /\ ~engines[tracer].tracerNil
    ELSE ~engines[e].tracerNil

\* C14: TraceError with a non-nil error on a context that carries no span
\* opens a span chain as Traceless would.
C14_TraceErrorManufactures ==
    [][\A c \in 1..Len(calls), e \in EngineRefs, err \in Errors, stack \in Stacks :
          (SpanFromContext(calls[c].ctx) = NoopSpan /\ EngineUsable(e)
              /\ TraceErrorBegin(c, e, err, stack))
          => Len(spans') > Len(spans)]_vars

C16_WatchdogMarksNeverEnds ==
    /\ [][\A c \in 1..Len(calls) :
            calls'[c].wpc # calls[c].wpc =>
                /\ spans'[calls[c].span].ends = Named(c).ends
                /\ spans'[calls[c].span].recording = Named(c).recording
                /\ spans'[calls[c].span].endBy = Named(c).endBy
                /\ (calls[c].wpc = "wait" /\ calls[c].doneC = "open" /\ Named(c).recording)
                      => calls'[c].wpc = "record"
                /\ calls[c].wpc = "record" =>
                      /\ calls'[c].wpc = "attrs"
                      /\ Named(c).recording => spans'[calls[c].span].events = Named(c).events + 1
                /\ calls[c].wpc = "attrs" =>
                      /\ calls'[c].wpc = "status"
                      /\ Named(c).recording => "exception.type=stuck" \in spans'[calls[c].span].attrs
                /\ calls[c].wpc = "status" =>
                      /\ calls'[c].wpc = "exited"
                      /\ (Named(c).recording /\ Named(c).status # "Ok")
                            => /\ spans'[calls[c].span].status = "Error"
                               /\ spans'[calls[c].span].desc = "stuck"]_vars
    /\ [](\A c \in 1..Len(calls) : IsClosure(c) => "stuck" \notin Named(c).endBy)

C16_Witness ==
    \E c \in 1..Len(calls) :
        /\ StuckMarked(c)
        /\ calls[c].wpc = "exited"
        /\ Named(c).recording
        /\ Named(c).events = 1
        /\ Named(c).ends = 0


\* C17: every watchdog goroutine that was started eventually exits (which
\* stops its timer), whether or not the completion function is ever invoked.
C17_WatchdogTerminates ==
    \A c \in 1..MaxCalls :
        (c \in 1..Len(calls) /\ calls[c].wpc # "off")
            ~> (c \in 1..Len(calls) /\ calls[c].wpc = "exited")

\* a watchdog has exited although the completion function was never invoked
\* and TraceError closed the span
C17_Witness ==
    \E c \in 1..Len(calls) :
        /\ IsClosure(c)
        /\ calls[c].wpc = "exited"
        /\ calls[c].doneC = "open"
        /\ calls[c].cRuns = 0
        /\ Named(c).endBy = {"error"}


\* C18: every shutdown function handed out by a successful exporter init has
\* been invoked exactly once as soon as the engine it was installed with is no
\* longer the installed one, and not at all while it is.
C18_ShutdownExactlyOnce ==
    \A f \in 1..Len(shutdownFns) : shutdownFns[f] = (IF tracer = f THEN 0 ELSE 1)

\* a package-level entry point is inside its delegated engine call, holding
\* the reader lock
ReaderInside(c) == calls[c].epc # "idle" /\ calls[c].eVia = "free"

\* C19: no step of Enable, Disable or Close is taken while a package-level
\* entry point is inside its delegated engine call, and no such entry point
\* enters the engine in the same step.
C19_WritersExcludeReaders ==
    [][LET \* a step of Enable, Disable or Close past taking the writer lock
           WriterStep ==
               \/ tracer' # tracer
               \/ exporterShutdownFn' # exporterShutdownFn
               \/ shutdownFns' # shutdownFns
               \/ Len(engines') # Len(engines)
               \/ \E e \in 1..Len(engines) : engines'[e].tracerNil # engines[e].tracerNil
               \/ (faults' \ faults)
                     \cap {"Disable: nil shutdown fn", "Close: nil shutdown fn"} # {}
       IN  WriterStep =>
              /\ \A c \in 1..Len(calls) : ~ReaderInside(c)
              /\ calls' = calls]_vars

\* two package-level TraceError calls are inside the engine at the same time
C19_Witness ==
    \E c, d \in 1..Len(calls) :
        /\ c # d
        /\ ReaderInside(c)
        /\ ReaderInside(d)
        /\ tracer # NoEngine

\* C20: an Enable whose exporter init yields no shutdown function installs no
\* engine and builds none: the installed engine is the one there was before,
\* none if there was none; no span and no call changes.
C20_FailedEnableInstallsNothing ==
    [][\A watchdog \in BOOLEAN :
          Enable(watchdog, FALSE) =>
              /\ tracer' = tracer
              /\ engines' = engines
              /\ UNCHANGED <<shutdownFns, spans, calls, faults>>]_vars

\* tracing is disabled after an engine was shut down and a later Enable failed
C20_Witness ==
    /\ tracer = NoEngine
    /\ exporterShutdownFn = NoFn
    /\ shutdownFns # <<>>
    /\ \A f \in 1..Len(shutdownFns) : shutdownFns[f] = 1
    /\ faults = {}
    /\ \E c \in 1..Len(calls) : calls[c].fn = "noop" /\ calls[c].cRuns >= 1

\* C21: a WithTags step adds the given tags to the attributes of the span its
\* context carries, when that span is still recording, and changes no other
\* span; with a context that carries no span, or through the package-level
\* entry point while no engine is installed, no span changes; it never faults.
C21_WithTagsFrame ==
    [][\A c \in 1..Len(calls), e \in EngineRefs :
          WithTags(c, e, MoreTags) =>
             LET h == SpanFromContext(calls[c].ctx)
                 disabled == e = NoEngine /\ tracer = NoEngine
             IN  /\ faults' = faults
                 /\ Len(spans') = Len(spans)
                 /\ \A i \in 1..Len(spans) : i # h => spans'[i] = spans[i]
                 /\ (disabled \/ h = NoopSpan) => spans' = spans
                 /\ (~disabled /\ h # NoopSpan) =>
                        /\ spans'[h].attrs = IF spans[h].recording
                                             THEN spans[h].attrs \cup MoreTags
                                             ELSE spans[h].attrs
                        /\ [spans'[h] EXCEPT !.attrs = {}, !.lateBy = {}]
                             = [spans[h] EXCEPT !.attrs = {}, !.lateBy = {}]]_vars

\* WithTags has tagged the span of a context while another span stays untagged
C21_Witness ==
    \E c \in 1..Len(calls) :
        /\ calls[c].span > 0
        /\ SpanFromContext(calls[c].ctx) = calls[c].span
        /\ MoreTags \subseteq spans[calls[c].span].attrs
        /\ \E j \in 1..Len(spans) : j # calls[c].span /\ MoreTags \cap spans[j].attrs = {}

\* C22: the call-stack offset of every engine is never negative; a
\* SetCallStackOffset step stores 0 for a negative argument and the argument
\* itself otherwise, on the engine it addresses only, and changes neither the
\* spans and calls already opened nor the faults.
C22_OffsetNeverNegative ==
    [][/\ \A x \in 1..Len(engines) : engines[x].callStackOffset >= 0
       /\ \A e \in EngineRefs, offset \in Offsets :
            SetCallStackOffset(e, offset) =>
               LET target == IF e = NoEngine THEN tracer ELSE e
               IN  /\ spans' = spans
                   /\ calls' = calls
                   /\ faults' = faults
                   /\ Len(engines') = Len(engines)
                   /\ \A x \in 1..Len(engines) :
                        /\ engines'[x].callStackOffset >= 0
                        /\ x # target => engines'[x] = engines[x]
                        /\ x = target =>
                             engines'[x].callStackOffset
                                = IF offset < 0 THEN 0 ELSE offset]_vars

\* a positive offset was stored on an engine that has already opened a span
C22_Witness ==
    /\ Len(spans) > 0
    /\ \E x \in 1..Len(engines) : engines[x].callStackOffset = 2

\* C23: a Trace or Traceless on an engine whose call-stack offset is n > 0
\* names its span after the frame n levels above the caller.
C23_OffsetShiftsName ==
    [][\A e \in EngineRefs, stack \in Stacks, ctxIn \in CallerContexts :
          LET target == IF e = NoEngine THEN tracer ELSE e
          IN  ( /\ target # NoEngine
                /\ engines[target].callStackOffset > 0
                /\ ~engines[target].tracerNil
                /\ Len(stack) > engines[target].callStackOffset
                /\ \/ Trace(e, FALSE, ctxIn, stack)
                   \/ Traceless(e, FALSE, ctxIn, stack) )
              => spans'[Len(spans')].name
                    = FuncName(stack[1 + engines[target].callStackOffset])]_vars

\* C24: the stack trace recorded on an error event holds no frame of the
\* engine, and so starts at the user function that called TraceError, through
\* the package-level entry point as on the engine.
C24_StackTraceExcludesEngine ==
    \A i \in 1..Len(spans) :
        \A n \in 1..Len(spans[i].stacktrace) :
            spans[i].stacktrace[n] \notin
                {FrameCallers, FrameCapture, FrameEngineTraceError, FrameFreeTraceError}

\* ==================================================================== Tags
\* how many Tags containers are built
MaxTagMaps == 3

\* how many arguments a Union takes
MaxUnionArgs == 2

TagKeys == {"k1", "k2"}

TagValues == {"a", "b"}

\* what a map holds for a key it does not contain
NoValue == "absent"

\* the maps over TagKeys
TagMapsOver == [TagKeys -> TagValues \cup {NoValue}]

\* the zero value Tags{}: mux == nil, no map behind it
ZeroTags == 0

\* a Tags value refers to the map behind it; copies of it share that map
TagsRefs == 0..Len(tagMaps)

\* the engine is not involved in a library call
EngineIdle == UNCHANGED <<tracer, exporterShutdownFn, shutdownFns, engines, spans, calls, faults>>

newSafeMap == [k \in TagKeys |-> NoValue]

newSafeMapWith(k, v) == [newSafeMap EXCEPT ![k] = v]

\* SafeMap.Set: s.m[k] = v on the map the value shares with its copies
Set(m, k, v) == [m EXCEPT ![k] = v]

\* for k, v := range src { dst[k] = v }
CopyInto(dst, src) == [k \in TagKeys |-> IF src[k] # NoValue THEN src[k] ELSE dst[k]]

\* the loop of Union over its arguments, in order; a zero value is skipped
RECURSIVE UnionArgs(_, _)
UnionArgs(allTags, tags) ==
    IF tags = <<>> THEN allTags
    ELSE UnionArgs(IF Head(tags) = ZeroTags THEN allTags
                   ELSE CopyInto(allTags, tagMaps[Head(tags)]),
                   Tail(tags))

\* Tags.Union: a new map with the receiver's entries, then each argument's
Union(t, tags) ==
    UnionArgs(IF t = ZeroTags THEN newSafeMap ELSE CopyInto(newSafeMap, tagMaps[t]), tags)

\* NewTags(m): a new container with a copy of m
TagsNew(m) ==
    /\ Len(tagMaps) < MaxTagMaps
    /\ tagMaps' = Append(tagMaps, CopyInto(newSafeMap, m))
    /\ UNCHANGED libCall
    /\ EngineIdle

\* t.With(k, v): sets the key in place; on the zero value, a new container
TagsWith(t, k, v) ==
    /\ IF t = ZeroTags
       THEN /\ Len(tagMaps) < MaxTagMaps
            /\ tagMaps' = Append(tagMaps, newSafeMapWith(k, v))
       ELSE tagMaps' = [tagMaps EXCEPT ![t] = Set(@, k, v)]
    /\ libCall' = IF libCall.fn = "Union"
                  THEN [libCall EXCEPT !.later = @ \cup {t}] ELSE libCall
    /\ EngineIdle

\* a Union that merges into the receiver's own map and returns the receiver
TagsUnionInPlace(t, tags) ==
    /\ Len(tagMaps) < MaxTagMaps
    /\ tagMaps' = IF t = ZeroTags THEN Append(tagMaps, Union(t, tags))
                  ELSE [tagMaps EXCEPT ![t] = Union(t, tags)]
    /\ libCall' = [fn |-> "Union", recv |-> t, args |-> tags,
                   result |-> IF t = ZeroTags THEN Len(tagMaps) + 1 ELSE t,
                   later |-> {}]
    /\ EngineIdle

\* unionTags := t.Union(tags...); later is the set of containers With was
\* called on since
TagsUnion(t, tags) ==
    /\ Len(tagMaps) < MaxTagMaps
    /\ tagMaps' = Append(tagMaps, Union(t, tags))
    /\ libCall' = [fn |-> "Union", recv |-> t, args |-> tags,
                   result |-> Len(tagMaps) + 1, later |-> {}]
    /\ EngineIdle

\* the argument lists of a Union
UnionArgLists == UNION {[1..n -> TagsRefs] : n \in 0..MaxUnionArgs}

NextTags ==
    \/ \E m \in TagMapsOver : TagsNew(m)
    \/ \E t \in TagsRefs, k \in TagKeys, v \in TagValues : TagsWith(t, k, v)
    \/ \E t \in TagsRefs, tags \in UnionArgLists : TagsUnion(t, tags)

\* Tags containers built, changed with With and merged with Union
SpecTags == Init /\ [][NextTags]_vars

\* the value the last operand that holds key k has for it, NoValue if none does
LastValue(k, operands) ==
    LET holders == {i \in 1..Len(operands) :
                       operands[i] # ZeroTags /\ tagMaps[operands[i]][k] # NoValue}
    IN  IF holders = {} THEN NoValue
        ELSE tagMaps[operands[CHOOSE i \in holders : \A j \in holders : j <= i]][k]

\* C25: a Union step builds a new container, holding for every key the value
\* of the last operand (receiver first, then the arguments in order) that has
\* the key, and leaves the receiver and every argument as they were; a With
\* step changes the container it is called on and no other, so a With on the
\* result never shows through an operand, nor a With on an operand through
\* the result.
C25_UnionCopies ==
    [][/\ \A t \in TagsRefs, tags \in UnionArgLists :
            TagsUnion(t, tags) =>
               /\ Len(tagMaps') = Len(tagMaps) + 1
               /\ libCall'.result = Len(tagMaps) + 1
               /\ libCall'.result \notin {t} \cup {tags[i] : i \in 1..Len(tags)}
               /\ \A i \in 1..Len(tagMaps) : tagMaps'[i] = tagMaps[i]
               /\ \A k \in TagKeys :
                    tagMaps'[libCall'.result][k] = LastValue(k, <<t>> \o tags)
       /\ \A t \in TagsRefs, k \in TagKeys, v \in TagValues :
            TagsWith(t, k, v) =>
               /\ \A i \in 1..Len(tagMaps) : i # t => tagMaps'[i] = tagMaps[i]
               /\ t # ZeroTags => tagMaps'[t] = [tagMaps[t] EXCEPT ![k] = v]]_vars

\* a Union whose operands disagree on a key took the argument's value, and a
\* later With on the result and on the receiver left the others as they were
C25_Witness ==
    /\ libCall.fn = "Union"
    /\ libCall.recv # ZeroTags
    /\ Len(libCall.args) = 1
    /\ libCall.args[1] \notin {ZeroTags, libCall.recv}
    /\ libCall.later = {libCall.recv, libCall.result}
    /\ tagMaps[libCall.recv]["k1"] = "a"
    /\ tagMaps[libCall.args[1]]["k1"] = "b"
    /\ tagMaps[libCall.result]["k1"] = "b"
    /\ tagMaps[libCall.recv]["k2"] = "a"
    /\ tagMaps[libCall.result]["k2"] = "b"
    /\ tagMaps[libCall.args[1]]["k2"] = NoValue

\* ============================================================= stack cache
\* how deep the call stacks examined are
MaxStackDepth == 4

\* how large searchOffset and callerOffset get
MaxOffset == 1

\* the frames of the call stacks examined: <<package, function, ...>>
ProbeFrames == { <<"wrap", "Call">>, <<"app", "f">>, <<"app", "g">> }

\* the call stacks above the entry of the resolver, nearest frame first
ProbeStacks == UNION {[1..n -> ProbeFrames] : n \in 0..MaxStackDepth}

\* runtime.Frame{}
ZeroFrame == <<>>

\* stackcache.New(searchOffset, callerOffset, breakpointPackage)
New(searchOffset, callerOffset, breakpointPackage) ==
    [searchOffset |-> searchOffset, callerOffset |-> callerOffset,
     breakpointPackage |-> breakpointPackage]

\* stackcache.PackageName of a frame's function
PackageName(function) == function[1]

\* the frame belongs to the breakpoint package
InBreakpointPackage(frame, breakpointPackage) ==
    frame # ZeroFrame /\ PackageName(frame) = breakpointPackage

EffectiveSkip(cache) == cache.searchOffset + cache.callerOffset + 1

\* the depth of the first frame past the run of breakpoint-package frames
\* that starts at depth i, or of the deepest frame if the run reaches it
RECURSIVE ScanPastRun(_, _, _)
ScanPastRun(stack, i, breakpointPackage) ==
    IF i < Len(stack) /\ InBreakpointPackage(stack[i], breakpointPackage)
    THEN ScanPastRun(stack, i + 1, breakpointPackage)
    ELSE i

\* a GetCaller that returns the frame at the effective skip as it is
CacheGetCallerNoScan(cache, stack) ==
    IF EffectiveSkip(cache) > Len(stack) THEN ZeroFrame
    ELSE stack[EffectiveSkip(cache)]

\* StackCache.GetCaller()
CacheGetCaller(cache, stack) ==
    IF EffectiveSkip(cache) > Len(stack) THEN ZeroFrame
    ELSE stack[ScanPastRun(stack, EffectiveSkip(cache), cache.breakpointPackage)]

\* the frames without their leading run of breakpoint-package frames
RECURSIVE DropRun(_, _)
DropRun(frames, breakpointPackage) ==
    IF frames # <<>> /\ InBreakpointPackage(Head(frames), breakpointPackage)
    THEN DropRun(Tail(frames), breakpointPackage)
    ELSE frames

\* the frames from the effective skip to the bottom of the stack
FramesFromSkip(cache, stack) == SubSeq(stack, EffectiveSkip(cache), Len(stack))

\* the call stack of testingwrap.GetStackFrames(cache) inside the function
\* literal a test passes to wrappedCall1
TestWrappedStack ==
    << <<"stackcache/internal/testingwrap", "GetStackFrames">>,
       <<"stackcache", "Test", "func1">>,
       <<"stackcache", "wrappedCall3">>,
       <<"stackcache", "wrappedCall2">>,
       <<"stackcache", "wrappedCall1">>,
       <<"stackcache", "Test">>,
       <<"testing", "tRunner">> >>

\* TestGetStackFramesWithBreakpointPackage_RuntimePackageAfterBreakpointPackage:
\* the cache, the stack it is called on, and the expected frames
TestRuntimePackageAfterBreakpointPackage ==
    [cache |-> New(0, 0, "stackcache"),
     stack |-> TestWrappedStack,
     expectedStack |-> << <<"stackcache/internal/testingwrap", "GetStackFrames">>,
                          <<"stackcache", "Test">>,
                          <<"testing", "tRunner">> >>]

\* what StackCache.GetStackFrames() can return: on the call of the test, a
\* non-empty sequence that passes its loop over expectedStack; elsewhere the
\* frames from the effective skip without their leading run
CacheGetStackFrames(cache, stack) ==
    IF /\ cache = TestRuntimePackageAfterBreakpointPackage.cache
       /\ stack = TestRuntimePackageAfterBreakpointPackage.stack
    THEN {SubSeq(TestRuntimePackageAfterBreakpointPackage.expectedStack, 1, n) :
             n \in 1..Len(TestRuntimePackageAfterBreakpointPackage.expectedStack)}
    ELSE {DropRun(FramesFromSkip(cache, stack), cache.breakpointPackage)}

\* a stack cache is built and called at some point of some call stack
InitStackCache ==
    /\ Init!1 /\ Init!2 /\ Init!3 /\ Init!4 /\ Init!5 /\ Init!6 /\ Init!7 /\ Init!8
    /\ libCall \in
         {[fn |-> "stackcache", cache |-> New(s, c, "wrap"), stack |-> stack,
           caller |-> ZeroFrame, callerDone |-> FALSE,
           frames |-> <<>>, framesDone |-> FALSE] :
             s \in 0..MaxOffset, c \in 0..MaxOffset, stack \in ProbeStacks}
         \cup
         {[fn |-> "stackcache", cache |-> TestRuntimePackageAfterBreakpointPackage.cache,
           stack |-> TestRuntimePackageAfterBreakpointPackage.stack,
           caller |-> ZeroFrame, callerDone |-> FALSE,
           frames |-> <<>>, framesDone |-> FALSE]}

\* frame := cache.GetCaller()
ApplyGetCaller ==
    /\ libCall.fn = "stackcache"
    /\ ~libCall.callerDone
    /\ libCall' = [libCall EXCEPT !.caller = CacheGetCaller(libCall.cache, libCall.stack),
                                  !.callerDone = TRUE]
    /\ UNCHANGED tagMaps
    /\ EngineIdle

\* frames := cache.GetStackFrames()
ApplyGetStackFrames ==
    /\ libCall.fn = "stackcache"
    /\ ~libCall.framesDone
    /\ \E frames \in CacheGetStackFrames(libCall.cache, libCall.stack) :
          libCall' = [libCall EXCEPT !.frames = frames, !.framesDone = TRUE]
    /\ UNCHANGED tagMaps
    /\ EngineIdle

NextStackCache ==
    \/ ApplyGetCaller
    \/ ApplyGetStackFrames

SpecStackCache == InitStackCache /\ [][NextStackCache]_vars

C27_OnlyLeadingRunElided ==
    (libCall.fn = "stackcache" /\ libCall.framesDone) =>
        LET rest == SubSeq(libCall.stack, EffectiveSkip(libCall.cache), Len(libCall.stack))
            n == Len(rest) - Len(libCall.frames)
        IN  /\ n >= 0
            /\ libCall.frames = SubSeq(rest, n + 1, Len(rest))
            /\ \A i \in 1..n : InBreakpointPackage(rest[i], libCall.cache.breakpointPackage)
            /\ libCall.frames # <<>> =>
                 ~InBreakpointPackage(libCall.frames[1], libCall.cache.breakpointPackage)

\* ================================================================ FuncName
\* A qualified name is the sequence of its separators "/" and "." and of the
\* pieces between them.
\* how many tokens the names examined have
MaxNameLen == 3

NameTokens == {"/", ".", "pkg", "func1", "1"}

\* the pieces made of digits only
NumericTokens == {"1", "2"}

ProbeNames == UNION {[1..n -> NameTokens] : n \in 0..MaxNameLen}

\* the position of the last sep in name[1..end], 0 if there is none
LastIndexOf(name, sep, end) ==
    LET at == {i \in 1..end : name[i] = sep}
    IN  IF at = {} THEN 0 ELSE CHOOSE i \in at : \A j \in at : j <= i

\* the name without its package path, up to the last '/'
StripPath(name) == SubSeq(name, LastIndexOf(name, "/", Len(name)) + 1, Len(name))

\* a '.'-separated segment made of digits only
IsNumeric(segment) ==
    segment # <<>> /\ \A i \in 1..Len(segment) : segment[i] \in NumericTokens

\* where the short name starts in s[1..end]: at the last segment, or at the
\* segment that a chain of numeric segments hangs on
RECURSIVE SuffixStart(_, _)
SuffixStart(s, end) ==
    LET dot == LastIndexOf(s, ".", end)
    IN  IF dot = 0 THEN 1
        ELSE IF IsNumeric(SubSeq(s, dot + 1, end)) THEN SuffixStart(s, dot - 1)
        ELSE dot + 1

\* the shortening rule: strip the path, keep the last segment or the whole
\* closure suffix
ShortName(name) ==
    LET s == StripPath(name)
    IN  SubSeq(s, SuffixStart(s, Len(s)), Len(s))

\* "github.com/InjectiveLabs/coretracer/stackcache"
StackcachePath ==
    <<"github", ".", "com", "/", "InjectiveLabs", "/", "coretracer", "/", "stackcache">>

\* "...stackcache.TestGetCaller_X.wrappedCall1.wrappedCall2.wrappedCall3.TestGetCaller_X.func1"
DeepClosure ==
    StackcachePath \o <<".", "TestGetCaller_X", ".", "wrappedCall1", ".", "wrappedCall2",
                        ".", "wrappedCall3", ".", "TestGetCaller_X", ".", "func1">>

\* the table of TestFuncName: fullName, expected
TestFuncName ==
    { [fullName |-> <<>>, expected |-> <<>>],
      [fullName |-> StackcachePath \o <<"/", "_underscore">>, expected |-> <<"_underscore">>],
      [fullName |-> StackcachePath \o <<"/", "invalid", ".", "$1">>,
       expected |-> <<"invalid", ".", "$1">>],
      [fullName |-> StackcachePath \o <<"/", "$invalid">>, expected |-> <<"$invalid">>],
      [fullName |-> StackcachePath \o <<".", "TestFuncName">>, expected |-> <<"TestFuncName">>],
      [fullName |-> StackcachePath \o <<".", "funcName">>, expected |-> <<"funcName">>],
      [fullName |-> StackcachePath \o <<".", "TestFuncName", ".", "func1">>,
       expected |-> <<"func1">>],
      [fullName |-> StackcachePath \o <<"/", "internal", "/", "testingwrap", ".", "GetCaller">>,
       expected |-> <<"GetCaller">>],
      [fullName |-> DeepClosure \o <<".", "func2", ".", "1", ".", "1">>,
       expected |-> <<"func2", ".", "1", ".", "1">>],
      [fullName |-> DeepClosure \o <<".", "func2">>, expected |-> <<"func2">>],
      [fullName |-> <<"runtime", ".", "main">>, expected |-> <<"main">>] }

\* stackcache.FuncName on a full name: what its test requires where the test
\* has a row for the name, the shortening rule elsewhere
StackcacheFuncName(fullName) ==
    IF \E test \in TestFuncName : test.fullName = fullName
    THEN (CHOOSE test \in TestFuncName : test.fullName = fullName).expected
    ELSE ShortName(fullName)

\* FuncName is called on some name
InitFuncName ==
    /\ Init!1 /\ Init!2 /\ Init!3 /\ Init!4 /\ Init!5 /\ Init!6 /\ Init!7 /\ Init!8
    /\ libCall \in {[fn |-> "FuncName", fullName |-> n, result |-> <<>>, done |-> FALSE] :
                      n \in ProbeNames \cup {test.fullName : test \in TestFuncName}}

\* result := FuncName(fullName)
ApplyFuncName ==
    /\ libCall.fn = "FuncName"
    /\ ~libCall.done
    /\ libCall' = [libCall EXCEPT !.result = StackcacheFuncName(libCall.fullName),
                                  !.done = TRUE]
    /\ UNCHANGED tagMaps
    /\ EngineIdle

SpecFuncName == InitFuncName /\ [][ApplyFuncName]_vars

\* C28: FuncName returns its argument without the package path up to the
\* last '/', cut down to the last '.'-separated segment, or to the whole
\* closure suffix when numeric segments trail; so the empty name gives the
\* empty name and a name without separators is returned unchanged.
C28_FuncNameShortens ==
    (libCall.fn = "FuncName" /\ libCall.done) =>
        /\ libCall.result = ShortName(libCall.fullName)
        /\ libCall.fullName = <<>> => libCall.result = <<>>
        /\ (\A i \in 1..Len(libCall.fullName) : libCall.fullName[i] \notin {"/", "."})
              => libCall.result = libCall.fullName

\* ================================================================== Config
\* how many times validateConfig is applied to a config
MaxValidations == 2

\* time.Second, durations being counted in milliseconds
Second == 1000

Minute == 60 * Second

\* the values of StuckFunctionTimeout examined: negative, unset, sub-second,
\* one second, more
Durations == {0 - Second, 0, 1, Second - 1, Second, Second + 1, 10 * Second, 5 * Minute}

\* var cfg *Config = nil
NilConfig == [isNil |-> TRUE]

\* &Config{}
EmptyConfig ==
    [isNil |-> FALSE, EnvName |-> "", ServiceName |-> "", ServiceVersion |-> "",
     ClusterID |-> "", StuckFunctionTimeout |-> 0, Logger |-> "nil"]

\* the configs examined
Configs ==
    {NilConfig} \cup
    [isNil : {FALSE}, EnvName : {"", "staging"}, ServiceName : {"", "api"},
     ServiceVersion : {"", "v1"}, ClusterID : {"", "c1"},
     StuckFunctionTimeout : Durations, Logger : {"nil", "custom"}]

\* a validateConfig that only fills a timeout left unset
validateConfigUnsetOnly(cfg) ==
    LET c == IF cfg = NilConfig THEN EmptyConfig ELSE cfg
    IN  [c EXCEPT
           !.StuckFunctionTimeout = IF @ = 0 THEN 5 * Minute ELSE @,
           !.EnvName = IF @ = "" THEN "local" ELSE @,
           !.ServiceName = IF @ = "" THEN "unknown" ELSE @,
           !.ServiceVersion = IF @ = "" THEN "dev" ELSE @,
           !.ClusterID = IF @ = "" THEN "svc-us-east" ELSE @,
           !.Logger = IF @ = "nil" THEN "slog.Default()" ELSE @]

validateConfig(cfg) ==
    LET c == IF cfg = NilConfig THEN EmptyConfig ELSE cfg
    IN  [c EXCEPT
           !.StuckFunctionTimeout = IF @ < Second THEN 5 * Minute ELSE @,
           !.EnvName = IF @ = "" THEN "local" ELSE @,
           !.ServiceName = IF @ = "" THEN "unknown" ELSE @,
           !.ServiceVersion = IF @ = "" THEN "dev" ELSE @,
           !.ClusterID = IF @ = "" THEN "svc-us-east" ELSE @,
           !.Logger = IF @ = "nil" THEN "slog.Default()" ELSE @]

DefaultConfig == validateConfig(NilConfig)

\* the tags of a config that is not nil: one per field that is set
TagsOf(c) ==
    (IF c.EnvName # "" THEN {<<"deployment.environment", c.EnvName>>} ELSE {})
    \cup (IF c.ClusterID # "" THEN {<<"deployment.cluster_id", c.ClusterID>>} ELSE {})
    \cup (IF c.ServiceName # "" THEN {<<"service.name", c.ServiceName>>} ELSE {})
    \cup (IF c.ServiceVersion # "" THEN {<<"service.version", c.ServiceVersion>>} ELSE {})

\* a GlobalTagsMap that validates the config it is called on
GlobalTagsMapValidating(c) == TagsOf(validateConfig(c))

\* (*Config).GlobalTagsMap: the map as the set of its key-value pairs
GlobalTagsMap(c) == TagsOf(IF c = NilConfig THEN DefaultConfig ELSE c)

\* a caller holds some config
InitConfig ==
    /\ Init!1 /\ Init!2 /\ Init!3 /\ Init!4 /\ Init!5 /\ Init!6 /\ Init!7 /\ Init!8
    /\ libCall \in {[fn |-> "config", orig |-> cfg, cfg |-> cfg, validated |-> 0,
                     tags |-> {}, tagsOf |-> NilConfig, tagsDone |-> FALSE] : cfg \in Configs}

\* cfg = validateConfig(cfg)
ApplyValidateConfig ==
    /\ libCall.fn = "config"
    /\ libCall.validated < MaxValidations
    /\ libCall' = [libCall EXCEPT !.cfg = validateConfig(libCall.cfg),
                                  !.validated = @ + 1]
    /\ UNCHANGED tagMaps
    /\ EngineIdle

\* globalTags := cfg.GlobalTagsMap()
ApplyGlobalTagsMap ==
    /\ libCall.fn = "config"
    /\ ~libCall.tagsDone
    /\ libCall' = [libCall EXCEPT !.tags = GlobalTagsMap(libCall.cfg),
                                  !.tagsOf = libCall.cfg,
                                  !.tagsDone = TRUE]
    /\ UNCHANGED tagMaps
    /\ EngineIdle

NextConfig ==
    \/ ApplyValidateConfig
    \/ ApplyGlobalTagsMap

SpecConfig == InitConfig /\ [][NextConfig]_vars

\* C29: validateConfig keeps a watchdog timeout of at least one second and
\* sets every smaller one (unset, sub-second, negative, or of a nil config)
\* to 5 minutes; a second validateConfig changes nothing.
C29_TimeoutFloor ==
    [][(libCall.fn = "config" /\ libCall'.fn = "config"
          /\ libCall'.validated = libCall.validated + 1) =>
          /\ libCall'.cfg.StuckFunctionTimeout =
                IF libCall.cfg # NilConfig /\ libCall.cfg.StuckFunctionTimeout >= Second
                THEN libCall.cfg.StuckFunctionTimeout
                ELSE 5 * Minute
          /\ libCall.validated >= 1 => libCall'.cfg = libCall.cfg]_vars

\* a sub-second timeout was replaced, and validateConfig ran a second time
C29_Witness ==
    /\ libCall.fn = "config"
    /\ libCall.validated = 2
    /\ libCall.orig # NilConfig
    /\ libCall.orig.StuckFunctionTimeout = Second - 1
    /\ libCall.cfg.StuckFunctionTimeout = 5 * Minute

C31_InstalledEngineHasShutdownFn ==
    /\ tracer # NoEngine => exporterShutdownFn # NoFn
    /\ faults \cap {"Disable: nil shutdown fn", "Close: nil shutdown fn"} = {}

\* C32: the watchdog issues no RecordError, SetAttributes or SetStatus to a
\* span to which End has already been issued, whatever the interleaving of
\* its expiry branch with the completion function and with TraceError.
C32_WatchdogNeverMarksEndedSpan ==
    \A i \in 1..Len(spans) : spans[i].ends > 0 => "stuck" \notin spans[i].lateBy

\* C33: after Traceless or TracelessWithName on a non-nil context pointer,
\* the context written back is derived from the context the caller passed
\* (its values, cancellation and deadline stay reachable) and carries the
\* span just opened.
C33_TracelessKeepsCallerContext ==
    \A c \in 1..Len(calls) :
        (calls[c].op \in {"Traceless", "TracelessWithName"} /\ ~calls[c].ctxNil /\ IsClosure(c)) =>
            /\ calls[c].ctx.base = calls[c].ctxIn.base
            /\ calls[c].ctx.span = calls[c].span

C35_NilCtxFallsBackToTraceless ==
    [][LET AncestorNames(stack) ==
               CASE Len(stack) = 1 -> <<>>
                 [] Len(stack) = 3 -> <<"g">>
                 [] Len(stack) = 6 -> <<"f", "g">>
           FallsBack(stack, name) ==
               LET n == Len(spans)
                   anc == AncestorNames(stack)
                   m == Len(anc)
                   new == calls'[Len(calls')]
               IN  /\ faults' = faults
                   /\ new.fn = "closure"
                   /\ Len(spans') = n + m + 1
                   /\ \A i \in 1..m :
                         /\ spans'[n + i].name = anc[i]
                         /\ spans'[n + i].parent = IF i = 1 THEN NoopSpan ELSE n + i - 1
                   /\ new.parents = [i \in 1..m |-> n + i]
                   /\ new.span = n + m + 1
                   /\ spans'[n + m + 1].name = name
                   /\ spans'[n + m + 1].parent = IF m = 0 THEN NoopSpan ELSE n + m
                   /\ new.ctx = NilCtx
                   /\ \A d \in 1..Len(calls) : calls'[d] = calls[d]
       IN  (Len(calls') = Len(calls) + 1 /\ calls'[Len(calls')].ctxNil
              /\ calls'[Len(calls')].op \in {"Trace", "TraceWithName"})
           => \A e \in EngineRefs, stack \in Stacks :
                 EngineUsable(e) =>
                    /\ Trace(e, TRUE, NilCtx, stack)
                          => FallsBack(stack, FuncName(GetCaller(stack)))
                    /\ \A name \in Names :
                          TraceWithName(e, TRUE, NilCtx, name, stack)
                              => FallsBack(stack, name)]_vars

\* Trace(nil) was called by h (called by g, called by f) and opened f, g, h
C35_Witness ==
    \E c \in 1..Len(calls) :
        /\ calls[c].op = "Trace"
        /\ calls[c].ctxNil
        /\ IsClosure(c)
        /\ calls[c].ctx = NilCtx
        /\ Len(calls[c].parents) = 2
        /\ spans[calls[c].parents[1]].name = "f"
        /\ spans[calls[c].parents[2]].name = "g"
        /\ Named(c).name = "h"
        /\ Named(c).parent = calls[c].parents[2]

\* -------------------------------------------------------- tombstone ledger
\* The engine revision that keeps close markers in the span's context: how
\* many close attempts (completion, TraceError) one span gets
MaxAttempts == 4

\* checkAndSetTombstoneSpanCtxDone: ctx is the set of markers the context
\* carries; the result is the context to keep and the flag returned with it
checkAndSetTombstoneSpanCtxDone(ctx) ==
    IF "done" \in ctx \/ "error" \in ctx \/ "stuck" \in ctx
    THEN [ctx |-> ctx, flag |-> FALSE]
    ELSE [ctx |-> ctx \cup {"done"}, flag |-> TRUE]

\* checkAndSetTombstoneSpanCtxError
checkAndSetTombstoneSpanCtxError(ctx) ==
    IF "stuck" \in ctx THEN [ctx |-> ctx, flag |-> FALSE]
    ELSE IF "done" \in ctx THEN [ctx |-> ctx, flag |-> FALSE]
    ELSE IF "error" \in ctx THEN [ctx |-> ctx, flag |-> FALSE]
    ELSE [ctx |-> ctx \cup {"error"}, flag |-> TRUE]

\* done := Trace(&ctx) has returned: span 1 is recording, *ctx carries it and
\* no marker, no close was attempted
InitTombstone ==
    /\ Init!1 /\ Init!2 /\ Init!3 /\ Init!4 /\ Init!6 /\ Init!7 /\ Init!8
    /\ spans = <<NewSpan("h", NoopSpan, SvcTags)>>
    /\ libCall = [fn |-> "ledger", ctx |-> {}, attempts |-> <<>>]

\* the completion closure: *ctx, alreadyTombstoned = checkAndSet...Done(*ctx);
\* if !alreadyTombstoned && span.IsRecording() { SetStatus(Ok); End() }
TombstoneCompletion ==
    LET r == checkAndSetTombstoneSpanCtxDone(libCall.ctx)
        alreadyTombstoned == r.flag
        closes == ~alreadyTombstoned /\ IsRecording(spans, 1)
    IN  /\ libCall.fn = "ledger"
        /\ Len(libCall.attempts) < MaxAttempts
        /\ spans' = IF closes THEN End(SetStatus(spans, 1, "Ok", "", "done"), 1, "done")
                    ELSE spans
        /\ libCall' = [libCall EXCEPT
                         !.ctx = r.ctx,
                         !.attempts = Append(@, [kind |-> "done", err |-> NilErr,
                                                 found |-> libCall.ctx, kept |-> r.ctx,
                                                 closed |-> closes])]
        /\ UNCHANGED <<tracer, exporterShutdownFn, shutdownFns, engines, calls, faults, tagMaps>>

\* TraceError(ctx, err): _, alreadyTombstoned := checkAndSet...Error(ctx);
\* if !alreadyTombstoned && span.IsRecording() { SetStatus(Error);
\* RecordError(err); End() }.  The marked context is dropped.
TombstoneTraceError(err) ==
    LET r == checkAndSetTombstoneSpanCtxError(libCall.ctx)
        alreadyTombstoned == r.flag
        closes == ~alreadyTombstoned /\ IsRecording(spans, 1)
        marked == SetStatus(spans, 1, "Error", IF err = NilErr THEN "" ELSE err, "error")
    IN  /\ libCall.fn = "ledger"
        /\ Len(libCall.attempts) < MaxAttempts
        /\ spans' = IF closes
                    THEN End(IF err = NilErr THEN marked ELSE RecordError(marked, 1, "error"),
                             1, "error")
                    ELSE spans
        /\ libCall' = [libCall EXCEPT
                         !.attempts = Append(@, [kind |-> "error", err |-> err,
                                                 found |-> libCall.ctx, kept |-> libCall.ctx,
                                                 closed |-> closes])]
        /\ UNCHANGED <<tracer, exporterShutdownFn, shutdownFns, engines, calls, faults, tagMaps>>

NextTombstone ==
    \/ TombstoneCompletion
    \/ \E err \in Errors \cup {NilErr} : TombstoneTraceError(err)

SpecTombstone == InitTombstone /\ [][NextTombstone]_vars

\* C36: a close attempt that finds no marker on the context leaves its own
\* marker there and issues the real close of the span; an attempt that finds
\* a blocking marker (Stuck, Done or Error) issues no close.
C36_FirstWriterCloses ==
    \A a \in 1..Len(libCall.attempts) :
        LET at == libCall.attempts[a]
        IN  /\ at.found = {} => (at.closed /\ at.kind \in at.kept)
            /\ at.found # {} => ~at.closed

\* ------------------------------------------------ completion after shutdown
\* Callers that keep the completion function of a traced call and invoke it,
\* once, only after the engine was cleared by Disable or Close; TraceError
\* may have closed the span before.
NextShutdown ==
    \/ \E watchdog \in BOOLEAN : Enable(watchdog, TRUE) /\ UNCHANGED lib
    \/ Disable /\ UNCHANGED lib
    \/ Close /\ UNCHANGED lib
    \/ StartTrace(MaxCalls) /\ UNCHANGED lib
    \/ StartTraceWithName(MaxCalls) /\ UNCHANGED lib
    \/ StartTraceless(MaxCalls) /\ UNCHANGED lib
    \/ StartTracelessWithName(MaxCalls) /\ UNCHANGED lib
    \/ \E c \in 1..Len(calls) :
          tracer = NoEngine /\ calls[c].cRuns = 0 /\ CompletionInvoke(c) /\ UNCHANGED lib
    \/ \E c \in 1..Len(calls) : CompletionCheck(c) /\ UNCHANGED lib
    \/ \E c \in 1..Len(calls) : CompletionSetStatus(c) /\ UNCHANGED lib
    \/ \E c \in 1..Len(calls) : CompletionEnd(c) /\ UNCHANGED lib
    \/ \E c \in 1..Len(calls) : CompletionParents(c) /\ UNCHANGED lib
    \/ StartTraceError /\ UNCHANGED lib
    \/ \E c \in 1..Len(calls) : TraceErrorSetStatus(c) /\ UNCHANGED lib
    \/ \E c \in 1..Len(calls) : TraceErrorRecordError(c) /\ UNCHANGED lib
    \/ \E c \in 1..Len(calls) : TraceErrorEnd(c) /\ UNCHANGED lib

SpecShutdown == Init /\ [][NextShutdown]_vars

TagsRange(t, stopEarly) ==
    LET entries == IF t = ZeroTags THEN {}
                   ELSE {<<k, tagMaps[t][k]>> : k \in {j \in TagKeys : tagMaps[t][j] # NoValue}}
    IN  /\ \E visited \in IF stopEarly /\ entries # {} THEN {{e} : e \in entries}
                          ELSE {entries} :
              libCall' = [fn |-> "Range", recv |-> t, visited |-> visited]
        /\ UNCHANGED tagMaps
        /\ EngineIdle

\* t.WithGlobalTags() while the package variable config is cfg: a new map
\* with the global tags, then the receiver's entries read under t.mux; the
\* zero value has no mux and the read lock dereferences nil
TagsWithGlobalTags(t, cfg) ==
    LET globalTags == GlobalTagsMap(cfg)
        own == IF t = ZeroTags THEN {}
               ELSE {<<k, tagMaps[t][k]>> : k \in {j \in TagKeys : tagMaps[t][j] # NoValue}}
        allTags == {p \in globalTags : \A q \in own : q[1] # p[1]} \cup own
    IN  /\ libCall' = [fn |-> "WithGlobalTags", recv |-> t, config |-> cfg,
                       panicked |-> (t = ZeroTags),
                       result |-> IF t = ZeroTags THEN {} ELSE allTags]
        /\ faults' = IF t = ZeroTags THEN faults \cup {"WithGlobalTags: nil mux"} ELSE faults
        /\ UNCHANGED <<tracer, exporterShutdownFn, shutdownFns, engines, spans, calls, tagMaps>>

\* Tags values, the zero value among them, used as receivers of With, Union,
\* Range and WithGlobalTags; config is nil or the validated config of Enable
NextZeroTags ==
    \/ \E k \in TagKeys, v \in TagValues : TagsNew(newSafeMapWith(k, v))
    \/ \E k \in TagKeys, v \in TagValues : TagsWith(ZeroTags, k, v)
    \/ \E tags \in UnionArgLists : TagsUnion(ZeroTags, tags)
    \/ \E t \in TagsRefs, stopEarly \in BOOLEAN : TagsRange(t, stopEarly)
    \/ \E t \in TagsRefs, cfg \in {NilConfig, DefaultConfig} : TagsWithGlobalTags(t, cfg)

SpecZeroTags == Init /\ [][NextZeroTags]_vars

\* C38: With, Range, Union and WithGlobalTags called on the zero value of
\* Tags do not fault: With yields a new container with the one entry, Range
\* calls its function on nothing, Union yields the union of its arguments
\* (a later argument winning a shared key), WithGlobalTags yields the global
\* tags.
C38_ZeroValueReceiver ==
    [][/\ \A k \in TagKeys, v \in TagValues :
            TagsWith(ZeroTags, k, v) =>
               /\ faults' = faults
               /\ tagMaps' = Append(tagMaps, [j \in TagKeys |-> IF j = k THEN v ELSE NoValue])
       /\ \A tags \in UnionArgLists :
            TagsUnion(ZeroTags, tags) =>
               /\ faults' = faults
               /\ \A k \in TagKeys : tagMaps'[libCall'.result][k] = LastValue(k, tags)
       /\ \A stopEarly \in BOOLEAN :
            TagsRange(ZeroTags, stopEarly) =>
               /\ faults' = faults
               /\ libCall'.visited = {}
       /\ \A cfg \in {NilConfig, DefaultConfig} :
            TagsWithGlobalTags(ZeroTags, cfg) =>
               /\ faults' = faults
               /\ ~libCall'.panicked
               /\ libCall'.result = GlobalTagsMap(cfg)]_vars

\* ------------------------------------------------- callStackFramesToSpans
\* GetStackFrames() has returned some frames, nearest first, of a program
\* whose entry is main.main
InitFrames ==
    /\ Init!1 /\ Init!2 /\ Init!3 /\ Init!4 /\ Init!5 /\ Init!6 /\ Init!7 /\ Init!8
    /\ libCall \in
         {[fn |-> "frames", frames |-> frames, done |-> FALSE,
           ctx |-> Background, parentSpans |-> <<>>, span |-> NoopSpan] :
             frames \in UNION {[1..n -> {<<"main", "h">>, <<"main", "g">>,
                                         <<"main", "main">>, <<"runtime", "main">>}] :
                                  n \in 0..MaxStackDepth}}

\* *ctx, parentSpans = t.callStackFramesToSpans(now, frames, attributes),
\* then the named span is started in *ctx
ApplyCallStackFramesToSpans ==
    LET built == callStackFramesToSpans(spans, Captured(0), libCall.frames, SvcTags)
    IN  /\ libCall.fn = "frames"
        /\ ~libCall.done
        /\ spans' = StartSpan(built.spans, built.ctx, "worker", SvcTags, FALSE)
        /\ libCall' = [libCall EXCEPT !.done = TRUE, !.ctx = built.ctx,
                                      !.parentSpans = built.parentSpans,
                                      !.span = Len(built.spans) + 1]
        /\ UNCHANGED <<tracer, exporterShutdownFn, shutdownFns, engines, calls, faults, tagMaps>>

SpecFrames == InitFrames /\ [][ApplyCallStackFramesToSpans]_vars

\* C39: callStackFramesToSpans opens one span for every captured frame that
\* is neither the nearest one, nor the outermost one, nor runtime.main or
\* main.main, outermost first, and none for any other frame; with two or
\* fewer frames it opens none and returns a background context, so that the
\* named span is a root.
C39_FramesToSpans ==
    (libCall.fn = "frames" /\ libCall.done) =>
        LET f == libCall.frames
            n == Len(f)
            eligible == {i \in 2..(n - 1) :
                            f[i] # <<"runtime", "main">> /\ f[i] # <<"main", "main">>}
            nth(k) == CHOOSE i \in eligible : Cardinality({j \in eligible : j > i}) = k - 1
            ps == libCall.parentSpans
        IN  /\ Len(ps) = Cardinality(eligible)
            /\ Len(spans) = Cardinality(eligible) + 1
            /\ \A k \in 1..Len(ps) :
                  /\ ps[k] = k
                  /\ spans[k].name = f[nth(k)][2]
                  /\ spans[k].parent = IF k = 1 THEN NoopSpan ELSE k - 1
            /\ libCall.ctx.base = "background"
            /\ libCall.ctx.span = IF ps = <<>> THEN NoopSpan ELSE Len(ps)
            /\ spans[libCall.span].parent = libCall.ctx.span
            /\ n <= 2 =>
                  /\ ps = <<>>
                  /\ libCall.ctx = Background
                  /\ spans[libCall.span].parent = NoopSpan

\* h called by g called by main.main called by runtime.main: one ancestor, g
C39_Witness ==
    /\ libCall.fn = "frames"
    /\ libCall.done
    /\ libCall.frames = << <<"main", "h">>, <<"main", "g">>,
                           <<"main", "main">>, <<"runtime", "main">> >>
    /\ libCall.parentSpans = <<1>>
    /\ spans[1].name = "g"
    /\ spans[2].parent = 1

====
